---------------------------- MODULE Spec2Model ----------------------------
(***************************************************************************)
(* Model of the news / fact-check corpus builder (Scraper-de-noticias).    *)
(*                                                                         *)
(* The parts of the program are modelled each with its own specification  *)
(* over a shared set of variables:                                         *)
(*   SpecBal     - scripts/scrape_news.py balanced_sample_by_ratio         *)
(*   SpecFp      - src/utils.py content_fingerprint                        *)
(*   SpecCanon   - the two canonicalize_url functions                      *)
(*   SpecCollect - src/pipeline.py _run_block / save_outputs and the daily *)
(*                 dedup of scripts/scrape_news.py, scripts/consolidate.py *)
(*   SpecVerdict - detect_verdict, labelers.pick, collapse, and the label  *)
(*                 logic of scrape_article                                 *)
(*   SpecFeed    - the feed discoverers scrape_rss and urls_from_rss       *)
(*   SpecFetch   - the fetchers fetch_httpx, fetch_requests, fetch_html    *)
(*   SpecBatch   - the batched, semaphore-bounded extraction of            *)
(*                 scrape_news.run (lines 455-479)                         *)
(*   SpecAdjust  - the first pass and rounding adjustment of the balancer  *)
(*   SpecListing - listing discovery: scrape_news.run lines 418-453 and    *)
(*                 scrapers.scrape_html_cards                              *)
(*   SpecKeep    - which of the records colliding on a dedup key is kept   *)
(*   SpecSan     - scripts/scrape_news.py sanitize_text                    *)
(*   SpecDispatch- global dedup of the jobs and the batch loop             *)
(*   SpecMerge   - two runs of save_outputs on one master file             *)
(*   SpecStrat   - src/balance.py stratified_balance                       *)
(* A specification leaves the variables of the other parts at their idle   *)
(* values.                                                                 *)
(***************************************************************************)
EXTENDS Integers, Sequences, FiniteSets, TLC

VARIABLES
    balIn,      \* arguments of balanced_sample_by_ratio: classes, w, T, avail
    balPc,      \* position inside balanced_sample_by_ratio
    bal,        \* its locals: desired, diff, order, i, take, deficit, rem, pool, j
    balOut,     \* rows per label of the frame it returns
    fpCalls,    \* the argument tuples content_fingerprint was called with
    fpDigests,  \* the digest each of those calls returned
    server,     \* how the remote site answers a GET (its redirect rule)
    cFn,        \* which canonicalize_url is exercised: "utils" or "news"
    cUrl,       \* the URL handed to canonicalize_url
    cOut,       \* the results of canonicalizing cUrl, then of canonicalizing that
    prog,       \* which collector runs: "pipeline" (src/pipeline.py) or "scrape_news"
    collPc,     \* "scrape": a run may start; "save": its snapshot awaits the merge
    runs,       \* runs merged so far
    rows,       \* the rows the current run extracted (scraper items / results)
    snapshot,   \* the frame the current run produced after its dedup
    master,     \* data/master/news_master.csv: whether it exists, and its rows
    daily,      \* the dataset_<date>.csv files of scrape_news, oldest first
    historico,  \* data/dataset_historico.csv written by consolidate.main
    vIn,        \* input of the verdict part: an article page or a raw label text
    vPc,        \* position of the verdict part
    vEstado,    \* the record's estado: after extraction, then after collapse
    vSearched,  \* whether detect_verdict was run for the record
    vPick,      \* what the source's labeler (labelers.pick) returned
    vLabels,    \* collapse(raw), then collapse of that
    feedIn,     \* the feed discoverer called, what the feed holds, the run time
    feedPc,     \* "call" before the discoverer ran, "returned" after
    feedOut,    \* whether it raised, and the list it returned
    fetcher,    \* the fetcher called: "httpx", "requests" or "fetch_html"
    attempts,   \* the outcomes of the HTTP attempts made so far
    fetchRes,   \* the fetcher's outcome: pending / content / none / raised; warned
    uq,         \* the jobs of the run: distinct raw URLs, in discovery order
    bPc,        \* position of run: "batch", "gather", "dedup", "done"
    bNext,      \* index in uq of the first job of the current chunk
    task,       \* per job of the chunk: "new", "waiting", "running", "done"
    sem,        \* value of asyncio.Semaphore(CONCURRENCY)
    got,        \* per job: the record its scrape_article returned
    failed,     \* the jobs whose fetch returned nothing
    completed,  \* the jobs of the chunk in the order their extraction finished
    bResults,   \* the list results of run
    bSnapshot,  \* the frame after the title filter and the daily dedup
    sortKind,   \* how sort_values orders rows of equal key
    lsIn,       \* a listing source: the discoverer, what each page fetch gives, the cap
    lsPc,       \* position of the discoverer: "fetch", "cap", "done"
    lsPage,     \* number of the listing page fetched next
    lsFound,    \* the list found of run, links in harvest order
    lsOut,      \* the candidate list of the source / the items of scrape_html_cards
    keepIn,     \* the records colliding on one dedup key, and the program deduplicating
    keepPc,     \* "sort" before the sort and dedup, "done" after
    keepOut,    \* the rows kept
    sanIn,      \* the string handed to sanitize_text
    sanPc,      \* "call" before sanitize_text ran, "returned" after
    sanOut,     \* the string it returned
    dJobs,      \* the list jobs of run: url, source and label hint, discovery order
    dPc,        \* position of run: "dedup", "batch", "done"
    dUq,        \* the list uq of run
    dNext,      \* the index i of the batch loop
    dCalls,     \* the jobs handed to scrape_article so far
    dResults,   \* the source and label hint of each record in results
    mFile,      \* the master file shared by two runs of save_outputs
    mPc,        \* position of each run: "read", "write", "done"
    mRead,      \* per run: its snapshot df, and the master file as it read it
    mOrder,     \* the reads and writes of the runs, in the order they happened
    stIn,       \* the label of each row of the frame given to stratified_balance
    stPc,       \* position of stratified_balance: "slice", "refill", "done"
    st,         \* its locals: the rows of each slice, allocated, deficit
    stOut       \* the rows of the frame it returns

balVars == <<balIn, balPc, bal, balOut>>

fpVars == <<fpCalls, fpDigests>>

canonVars == <<server, cFn, cUrl, cOut>>

collectVars == <<prog, collPc, runs, rows, snapshot, master, daily, historico>>

verdictVars == <<vIn, vPc, vEstado, vSearched, vPick, vLabels>>

feedVars == <<feedIn, feedPc, feedOut>>

fetchVars == <<fetcher, attempts, fetchRes>>

batchVars == <<uq, bPc, bNext, task, sem, got, failed, completed, bResults, bSnapshot,
               sortKind>>

listVars == <<lsIn, lsPc, lsPage, lsFound, lsOut>>

keepVars == <<keepIn, keepPc, keepOut>>

sanVars == <<sanIn, sanPc, sanOut>>

dispatchVars == <<dJobs, dPc, dUq, dNext, dCalls, dResults>>

mergeVars == <<mFile, mPc, mRead, mOrder>>

stratVars == <<stIn, stPc, st, stOut>>

lateVars == <<listVars, keepVars, sanVars, dispatchVars, mergeVars, stratVars>>

vars == <<balVars, fpVars, canonVars, collectVars, verdictVars, feedVars, fetchVars,
          batchVars, lateVars>>

---------------------------------------------------------------------------
(* Helpers shared by the parts.                                            *)

Range(s) == {s[k] : k \in 1..Len(s)}

Min(a, b) == IF a <= b THEN a ELSE b

Max(a, b) == IF a >= b THEN a ELSE b

RECURSIVE SumOver(_, _)
\* sum(f[c] for c in S)
SumOver(f, S) ==
    IF S = {} THEN 0
    ELSE LET c == CHOOSE x \in S : TRUE IN f[c] + SumOver(f, S \ {c})

RECURSIVE sorted(_, _, _)
\* Python's sorted(seq, key=..., reverse=...): stable in both directions, an
\* element is placed after every earlier element that does not sort after it.
sorted(seq, key, reverse) ==
    IF seq = <<>> THEN <<>>
    ELSE LET s == sorted(SubSeq(seq, 1, Len(seq) - 1), key, reverse)
             x == seq[Len(seq)]
             n == Cardinality({k \in 1..Len(s) :
                      IF reverse THEN key[s[k]] >= key[x] ELSE key[s[k]] <= key[x]})
         IN SubSeq(s, 1, n) \o <<x>> \o SubSeq(s, n + 1, Len(s))

---------------------------------------------------------------------------
(* balanced_sample_by_ratio(df_in, ratios, target_total)                   *)
(*                                                                         *)
(* The frame df_in is represented by the number of rows per value of its   *)
(* "estado" column (which rows a seeded sample picks does not change any   *)
(* count).  A ratio map is given by integer weights w: ratios[c] is        *)
(* w[c] / sum(w) after the normalisation of lines 500-503, and every       *)
(* product target_total * ratios[c] is kept as the exact fraction          *)
(* target_total * w[c] / sum(w).  For weights up to 3 and targets up to 20 *)
(* the float arithmetic of the program gives the same roundings and the    *)
(* same sort orders as the exact fractions.                                *)

MaxW == 2          \* largest weight of a class in the ratio map
MaxTarget == 4     \* largest target_total
MaxAvail == 4      \* largest number of pool rows per label

\* values of the "estado" column after run()'s collapse
Labels == {"falso", "verdadero", "dudoso"}

\* key order of the default --ratio argument
DefaultClasses == <<"falso", "verdadero", "dudoso">>

\* the ratio maps' key lists: the default, and one that leaves a pool label out
ClassLists == {DefaultClasses, <<"falso", "verdadero">>}

\* ratios = {'false':0.4,'true':0.4,'doubtful':0.2}, targetTotal = 10,
\* supply {false:3, true:20, doubtful:20}
ScenarioIn ==
    [classes |-> DefaultClasses,
     w |-> [c \in Labels |-> IF c = "dudoso" THEN 1 ELSE 2],
     T |-> 10,
     avail |-> [c \in Labels |-> IF c = "falso" THEN 3 ELSE 20]]

BalInputs ==
    {in \in [classes : ClassLists, w : [Labels -> 0..MaxW], T : 0..MaxTarget,
              avail : [Labels -> 0..MaxAvail]] :
        \A c \in Labels \ Range(in.classes) : in.w[c] = 0}

\* s = sum(ratios.values()) or 1.0
RatioSum(in) ==
    LET s == SumOver(in.w, Range(in.classes)) IN IF s = 0 THEN 1 ELSE s

\* int(round(num / den)) for num >= 0, den > 0: Python rounds halves to even
RoundHalfEven(num, den) ==
    LET q == num \div den
        r == num % den
    IN IF 2 * r > den THEN q + 1
       ELSE IF 2 * r < den THEN q
       ELSE IF q % 2 = 0 THEN q ELSE q + 1

\* the first pass when ratios.get(c, 0.0) misses every key
FirstPassDefaultZero(in) == [c \in Range(in.classes) |-> 0]

\* desired = {c: int(round(target_total * ratios.get(c, 0.0)))}
FirstPass(in) ==
    [c \in Range(in.classes) |-> RoundHalfEven(in.T * in.w[c], RatioSum(in))]

\* the sort key left out: every class has the same key
RemainderIgnored(in, desired) == [c \in Range(in.classes) |-> 0]

\* the sort key (target_total * ratios[c]) - desired[c], times RatioSum(in)
Remainder(in, desired) ==
    [c \in Range(in.classes) |-> in.T * in.w[c] - desired[c] * RatioSum(in)]

BalIdle == [desired |-> <<>>, diff |-> 0, order |-> <<>>, i |-> 0, take |-> <<>>,
            deficit |-> 0, rem |-> <<>>, pool |-> <<>>, j |-> 0]

BalIdleOut == [c \in Labels |-> 0]

BalInit ==
    /\ balIn \in BalInputs \cup {ScenarioIn}
    /\ balPc = "round"
    /\ bal = BalIdle
    /\ balOut = BalIdleOut

\* lines 509-516: first pass, diff, and the visiting order of the adjustment
BalRound ==
    /\ balPc = "round"
    /\ LET desired == FirstPass(balIn)
           diff == balIn.T - SumOver(desired, Range(balIn.classes))
           order == IF diff # 0
                    THEN sorted(balIn.classes, Remainder(balIn, desired), diff > 0)
                    ELSE <<>>
       IN /\ bal' = [bal EXCEPT !.desired = desired, !.diff = diff,
                                !.order = order, !.i = 0]
          /\ balPc' = IF diff # 0 /\ 0 < Len(order) THEN "adjust" ELSE "clip"
    /\ UNCHANGED <<lateVars, verdictVars, feedVars, fetchVars, batchVars,
                   balIn, balOut, fpVars, canonVars, collectVars>>

\* lines 518-521: one iteration of the rounding adjustment loop
BalAdjust ==
    /\ balPc = "adjust"
    /\ LET c == bal.order[bal.i + 1]
           step == IF bal.diff > 0 THEN 1
                   ELSE IF bal.desired[c] > 0 THEN -1 ELSE 0
           diff == IF bal.diff > 0 THEN bal.diff - 1 ELSE bal.diff + 1
           i == (bal.i + 1) % Len(bal.order)
       IN /\ bal' = [bal EXCEPT !.desired[c] = @ + step, !.diff = diff, !.i = i]
          /\ balPc' = IF diff # 0 /\ i < Len(bal.order) THEN "adjust" ELSE "clip"
    /\ UNCHANGED <<lateVars, verdictVars, feedVars, fetchVars, batchVars,
                   balIn, balOut, fpVars, canonVars, collectVars>>

\* any(rem[c] > 0 for c in pool)
AnyRem(rem, pool) == \E k \in 1..Len(pool) : rem[pool[k]] > 0

\* the refill order sorted without reverse=True
RefillOrderAscending(in, rem) == sorted(in.classes, rem, FALSE)

\* pool = sorted(classes, key=lambda c: rem[c], reverse=True)
RefillOrder(in, rem) == sorted(in.classes, rem, TRUE)

\* lines 524-533: clip by supply, deficit, and the visiting order of the refill
BalClip ==
    /\ balPc = "clip"
    /\ LET take == [c \in Range(balIn.classes) |->
                        Min(bal.desired[c], balIn.avail[c])]
           deficit == balIn.T - SumOver(take, Range(balIn.classes))
           rem == [c \in Range(balIn.classes) |->
                        Max(balIn.avail[c] - take[c], 0)]
           pool == RefillOrder(balIn, rem)
       IN IF deficit > 0
          THEN /\ bal' = [bal EXCEPT !.take = take, !.deficit = deficit,
                                     !.rem = rem, !.pool = pool, !.j = 0]
               /\ balPc' = IF AnyRem(rem, pool) THEN "redistribute" ELSE "sample"
          ELSE /\ bal' = [bal EXCEPT !.take = take, !.deficit = deficit]
               /\ balPc' = "sample"
    /\ UNCHANGED <<lateVars, verdictVars, feedVars, fetchVars, batchVars,
                   balIn, balOut, fpVars, canonVars, collectVars>>

\* lines 534-540: one iteration of the refill loop
BalRedistribute ==
    /\ balPc = "redistribute"
    /\ LET c == bal.pool[(bal.j % Len(bal.pool)) + 1]
           hit == bal.rem[c] > 0
           rem == IF hit THEN [bal.rem EXCEPT ![c] = @ - 1] ELSE bal.rem
           deficit == IF hit THEN bal.deficit - 1 ELSE bal.deficit
       IN /\ bal' = [bal EXCEPT !.take[c] = IF hit THEN @ + 1 ELSE @,
                                !.rem = rem, !.deficit = deficit, !.j = @ + 1]
          /\ balPc' = IF deficit > 0 /\ AnyRem(rem, bal.pool)
                      THEN "redistribute" ELSE "sample"
    /\ UNCHANGED <<lateVars, verdictVars, feedVars, fetchVars, batchVars,
                   balIn, balOut, fpVars, canonVars, collectVars>>

\* lines 544-557: the rows of each class with take > 0 (all of them, or a
\* sample of take[c]); the whole input frame when no class contributes a part
Parts(in, take) == {c \in Range(in.classes) : take[c] > 0}

OutCounts(in, take) ==
    IF Parts(in, take) # {}
    THEN [c \in Labels |->
            IF c \in Parts(in, take) THEN Min(take[c], in.avail[c]) ELSE 0]
    ELSE in.avail

BalSample ==
    /\ balPc = "sample"
    /\ balOut' = OutCounts(balIn, bal.take)
    /\ balPc' = "done"
    /\ UNCHANGED <<lateVars, verdictVars, feedVars, fetchVars, batchVars,
                   balIn, bal, fpVars, canonVars, collectVars>>

\* the first pass and the rounding adjustment (lines 509-521)
NextAdjust == BalRound \/ BalAdjust

NextBal ==
    \/ BalRound
    \/ BalAdjust
    \/ BalClip
    \/ BalRedistribute
    \/ BalSample

\* no call of balanced_sample_by_ratio is in progress
BalIdleState ==
    /\ balIn = ScenarioIn
    /\ balPc = "idle"
    /\ bal = BalIdle
    /\ balOut = BalIdleOut

---------------------------------------------------------------------------
(* Properties of balanced_sample_by_ratio.                                 *)

\* number of rows of the returned frame, and of the input frame
OutRows == SumOver(balOut, Labels)

PoolRows == SumOver(balIn.avail, Labels)

\* rows of the pool that belong to a class of the ratio map
AvailRows == SumOver(balIn.avail, Range(balIn.classes))

\* the ratio map sums to 1 once normalised (some weight is positive)
RatiosSumToOne == SumOver(balIn.w, Range(balIn.classes)) > 0

\* round(targetTotal * ratio_c)
Rounded(c) == RoundHalfEven(balIn.T * balIn.w[c], RatioSum(balIn))

\* C7: for ratios summing to 1 and targetTotal not larger than the rows
\* available, the number of rows returned is min(targetTotal, rows available).
C7_RowsEqualMinTarget ==
    (balPc = "done" /\ RatiosSumToOne /\ balIn.T <= AvailRows)
        => OutRows = Min(balIn.T, AvailRows)

\* C8: the balancer's output never has more than targetTotal rows.
C8_AtMostTarget == balPc = "done" => OutRows <= balIn.T

\* C9 as stated: each class's count differs from round(targetTotal*ratio_c)
\* by at most the shortfall its own supply forces.  (Taken for targetTotal >= 1,
\* where the returned frame is made of the sampled parts, so that what refutes
\* it is the quota arithmetic itself.)
C9_QuotaLaw ==
    (balPc = "done" /\ RatiosSumToOne /\ 1 <= balIn.T /\ balIn.T <= AvailRows)
        => \A c \in Range(balIn.classes) :
              LET d == balOut[c] - Rounded(c)
              IN (IF d >= 0 THEN d ELSE -d)
                     <= Max(0, Rounded(c) - balIn.avail[c])

\* C9 amended: a class's count falls short of round(targetTotal*ratio_c) by at
\* most the larger of 1 (the rounding adjustment) and the shortfall its own
\* supply forces, and never exceeds its supply; it may exceed
\* round(targetTotal*ratio_c) by what is redistributed to it.
C9_QuotaLawAmended ==
    (balPc = "done" /\ RatiosSumToOne /\ balIn.T <= AvailRows)
        => \A c \in Range(balIn.classes) :
              /\ balOut[c] >= Rounded(c) - Max(1, Rounded(c) - balIn.avail[c])
              /\ balOut[c] <= balIn.avail[c]

\* a run where redistribution pushed a class above its rounded share
C9_Witness ==
    /\ balPc = "done" /\ RatiosSumToOne /\ balIn.T <= AvailRows
    /\ \E c \in Range(balIn.classes) :
          balOut[c] > Rounded(c) + 1 /\ balIn.avail[c] >= Rounded(c)
    /\ \E c \in Range(balIn.classes) : balOut[c] = Rounded(c) - 1

\* units a class has received from the refill loop so far
Received(c) == bal.take[c] - Min(bal.desired[c], balIn.avail[c])

\* supply a class had left when the refill loop started
Rem0(c) == Max(balIn.avail[c] - Min(bal.desired[c], balIn.avail[c]), 0)

\* the refill loop was entered in this call
Refilled == balPc \in {"redistribute", "sample", "done"} /\ Len(bal.pool) > 0

\* C10: a deficit left by clipping is handed out one unit at a time to classes
\* with unused supply, visited in order of most remaining supply first, until
\* the deficit is 0 or no class has supply left; in the scenario (ratios
\* 0.4/0.4/0.2, targetTotal 10, supply 3/20/20) the result has falso = 3, the
\* other 7 rows from verdadero and dudoso, 10 rows in all.
C10_Redistribution ==
    /\ Refilled =>
          /\ \A k \in 1..Len(bal.pool), l \in 1..Len(bal.pool) :
                k < l => /\ Rem0(bal.pool[k]) >= Rem0(bal.pool[l])
                         /\ Received(bal.pool[k]) >= Received(bal.pool[l])
                         /\ (Received(bal.pool[k]) > Received(bal.pool[l]) + 1
                                => bal.rem[bal.pool[l]] = 0)
          /\ \A c \in Range(balIn.classes) :
                /\ Received(c) >= 0
                /\ bal.rem[c] = Rem0(c) - Received(c)
          /\ SumOver(bal.take, Range(balIn.classes)) + bal.deficit = balIn.T
          /\ balPc \in {"sample", "done"} =>
                (bal.deficit = 0 \/ \A c \in Range(balIn.classes) : bal.rem[c] = 0)
    /\ (balPc = "done" /\ balIn = ScenarioIn) =>
          /\ balOut["falso"] = 3
          /\ balOut["verdadero"] + balOut["dudoso"] = 7
          /\ OutRows = 10

\* the scenario's run has finished, and the refill gave dudoso its third row
C10_Witness ==
    /\ balPc = "done" /\ balIn = ScenarioIn
    /\ bal.j = 1 /\ balOut["dudoso"] = 3 /\ balOut["verdadero"] = 4

\* the adjustment loop has ended: desired holds the final counts
Adjusted == balPc \in {"clip", "redistribute", "sample", "done"}

\* what the adjustment loop added to the rounded count of class c
Change(c) == bal.desired[c] - Rounded(c)

\* targetTotal minus the sum of the rounded counts
Shortfall ==
    balIn.T - SumOver([c \in Range(balIn.classes) |-> Rounded(c)], Range(balIn.classes))

\* the fractional part of targetTotal * ratio_c, times RatioSum(balIn)
Fraction == [c \in Range(balIn.classes) |-> (balIn.T * balIn.w[c]) % RatioSum(balIn)]

\* targetTotal * ratio_c minus the rounded count, times RatioSum(balIn)
RoundingRemainder == Remainder(balIn, FirstPass(balIn))

\* the final counts are non-negative and sum to targetTotal, each differs from
\* the rounded count by at most one unit in the direction of the discrepancy,
\* and the classes changed come first in the order of key
AdjustLaw(key) ==
    /\ \A c \in Range(balIn.classes) :
          /\ bal.desired[c] >= 0
          /\ Change(c) \in {-1, 0, 1}
          /\ (Shortfall >= 0 => Change(c) >= 0)
          /\ (Shortfall <= 0 => Change(c) <= 0)
    /\ SumOver(bal.desired, Range(balIn.classes)) = balIn.T
    /\ \A c, e \in Range(balIn.classes) :
          /\ (Change(c) = 1 /\ Change(e) = 0) => key[c] >= key[e]
          /\ (Change(c) = -1 /\ Change(e) = 0) => key[c] <= key[e]

\* C26: for every ratio map that normalizes to sum 1 and every targetTotal,
\* the rounding-adjustment loop terminates and leaves counts that are
\* non-negative and sum to targetTotal, each changed by at most 1, the
\* classes adjusted being those of largest fractional remainder for a
\* shortfall and of smallest fractional remainder for an excess.
C26_RoundingAdjust ==
    /\ []((Adjusted /\ RatiosSumToOne) => AdjustLaw(Fraction))
    /\ (balPc = "adjust" ~> balPc = "clip")

\* C26 amended: as C26, the order being that of the remainder the rounding
\* left, targetTotal * ratio_c minus the rounded count: largest first for a
\* shortfall, smallest (most rounded up) first for an excess.
C26_RoundingAdjustAmended ==
    /\ []((Adjusted /\ RatiosSumToOne) => AdjustLaw(RoundingRemainder))
    /\ (balPc = "adjust" ~> balPc = "clip")

\* an excess was taken back from a class that had been rounded up, while a
\* class of the map has an exact quota
C26_Witness ==
    /\ Adjusted /\ RatiosSumToOne /\ Shortfall < 0
    /\ \E c, e \in Range(balIn.classes) :
          Change(c) = -1 /\ Change(e) = 0 /\ Fraction[e] = 0

---------------------------------------------------------------------------
(* utils.content_fingerprint, called with a tuple of parts                 *)
(*                                                                         *)
(* A part is None or a text; a text is a sequence of symbols, where the    *)
(* symbol "US" is the byte 0x1F and any other symbol stands for a          *)
(* non-empty run of bytes without 0x1F.  SHA-256 is taken as injective: a  *)
(* digest is represented by the byte string that was fed to the hash.      *)

MaxPartLen == 1     \* longest text of a part, in symbols

\* number of parts in the calls of pipeline._normalize_row
NParts == 4

US == "US"

Bytes == {"a", US}

RECURSIVE SeqsUpTo(_, _)
\* all sequences over S of length <= n
SeqsUpTo(S, n) ==
    IF n = 0 THEN {<<>>}
    ELSE SeqsUpTo(S, n - 1)
            \cup {Append(q, x) : q \in SeqsUpTo(S, n - 1), x \in S}

None == [isNone |-> TRUE, s |-> <<>>]

Str(q) == [isNone |-> FALSE, s |-> q]

PartValues == {None} \cup {Str(q) : q \in SeqsUpTo(Bytes, MaxPartLen)}

PartTuples == [1..NParts -> PartValues]

\* (part or "").encode("utf-8")
Encode(part) == IF part.isNone THEN <<>> ELSE part.s

RECURSIVE Updates(_)
\* the bytes fed to the hash: every part followed by b"\x1f"
Updates(parts) ==
    IF parts = <<>> THEN <<>>
    ELSE Encode(Head(parts)) \o <<US>> \o Updates(Tail(parts))

\* h = hashlib.sha256(); ...; return h.hexdigest()
content_fingerprint(parts) == [sha256 |-> Updates(parts)]

FpInit ==
    /\ fpCalls = <<>>
    /\ fpDigests = <<>>

FpIdleState == FpInit

\* one call of content_fingerprint; two calls are kept for comparison
Fingerprint ==
    /\ Len(fpCalls) < 2
    /\ \E parts \in PartTuples :
          /\ fpCalls' = Append(fpCalls, parts)
          /\ fpDigests' = Append(fpDigests, content_fingerprint(parts))
    /\ UNCHANGED <<lateVars, verdictVars, feedVars, fetchVars, batchVars,
                   balVars, canonVars, collectVars>>

NextFp == Fingerprint

\* C6: content_fingerprint is a function of its tuple of parts, and two tuples
\* that differ in any part (None read as the empty text) have different
\* fingerprints, also when parts contain 0x1F or are empty.
C6_FingerprintInjective ==
    \A m \in 1..Len(fpCalls), n \in 1..Len(fpCalls) :
        /\ fpCalls[m] = fpCalls[n] => fpDigests[m] = fpDigests[n]
        /\ (\E k \in 1..NParts : Encode(fpCalls[m][k]) # Encode(fpCalls[n][k]))
              => fpDigests[m] # fpDigests[n]

---------------------------------------------------------------------------
(* URLs and the two canonicalize_url functions                             *)
(*                                                                         *)
(* A URL string is represented by its components: origin (scheme and       *)
(* netloc, "" for a relative reference), path, the raw query as a sequence *)
(* of parameters in textual order, and whether a fragment follows.  A raw  *)
(* parameter is [k, v, eq]: the text before "=", the text after it, and    *)
(* whether the "=" is there ("b" against "b=").  Two URL strings are equal *)
(* exactly when their components are.                                      *)

MaxQuery == 2       \* most parameters in a query string

Origin == "https://site.com"

Paths == {"/a", "/b"}

QKeys == {"a", "b", "utm_source", "UTM_Source"}

\* raw values: blank, "1", and "1" percent-encoded
QValues == {"", "1", "%31"}

RawParams ==
    {[k |-> k, v |-> v, eq |-> TRUE] : k \in QKeys, v \in QValues}
        \cup {[k |-> k, v |-> "", eq |-> FALSE] : k \in QKeys}

Urls ==
    [origin : {"", Origin}, path : Paths, query : SeqsUpTo(RawParams, MaxQuery),
     fragment : BOOLEAN]

\* urllib.parse.unquote_plus on the tokens above
unquote(t) == IF t = "%31" THEN "1" ELSE t

\* urllib.parse.quote_plus on decoded tokens: none of them needs escaping
quote_plus(t) == t

\* str.lower()
lower(t) ==
    CASE t = "UTM_Source" -> "utm_source"
      [] t = "Falso" -> "falso"
      [] t = "Noticias" -> "noticias"
      [] t = "Titular uno" -> "titular uno"
      [] t = "Titular dos" -> "titular dos"
      [] OTHER -> t

\* code-point order of the decoded tokens: "" < "1" < "U..." < "a" < "b" < "u..."
StrRank(t) ==
    CASE t = "" -> 0
      [] t = "1" -> 1
      [] t = "UTM_Source" -> 2
      [] t = "a" -> 3
      [] t = "b" -> 4
      [] t = "utm_source" -> 5

RECURSIVE parse_qsl(_, _)
\* urllib.parse.parse_qsl: decoded (name, value) pairs in order; a parameter
\* with a blank value (with or without "=") is kept only with keep_blank_values
parse_qsl(query, keep_blank_values) ==
    IF query = <<>> THEN <<>>
    ELSE LET p == Head(query)
             rest == parse_qsl(Tail(query), keep_blank_values)
         IN IF p.v # "" \/ keep_blank_values
            THEN <<[k |-> unquote(p.k), v |-> unquote(p.v)]>> \o rest
            ELSE rest

\* urllib.parse.urlencode: "k=v" for every pair, joined by "&"
urlencode(pairs) ==
    [n \in 1..Len(pairs) |->
        [k |-> quote_plus(pairs[n].k), v |-> quote_plus(pairs[n].v), eq |-> TRUE]]

\* sorted(pairs): tuples compare by name, then by value
SortedPairs(pairs) ==
    sorted(pairs, [p \in Range(pairs) |-> 10 * StrRank(p.k) + StrRank(p.v)], FALSE)

\* urljoin(base_url, href) for an absolute base: an absolute href is kept, a
\* root-relative one takes the base's scheme and netloc
urljoin(base_url, href) ==
    IF href.origin # "" THEN href ELSE [href EXCEPT !.origin = base_url.origin]

\* utils.canonicalize_url(base_url, href)
canonicalize_url(base_url, href) ==
    LET p == urljoin(base_url, href)
        q == urlencode(SortedPairs(parse_qsl(p.query, TRUE)))
    IN [p EXCEPT !.query = q, !.fragment = FALSE]

\* the listing URL rows are resolved against (row["base_url"])
BaseUrl == [origin |-> Origin, path |-> "/b", query |-> <<>>, fragment |-> FALSE]

TRACKING ==
    {"utm_source", "utm_medium", "utm_campaign", "utm_term", "utm_content",
     "gclid", "fbclid"}

RECURSIVE StripFirstTracking(_)
\* a filter that removes only the first tracking parameter it meets
StripFirstTracking(pairs) ==
    IF pairs = <<>> THEN <<>>
    ELSE IF lower(Head(pairs).k) \in TRACKING THEN Tail(pairs)
    ELSE <<Head(pairs)>> \o StripFirstTracking(Tail(pairs))

\* [(k,v) for k,v in ... if k.lower() not in {...}]
StripTracking(pairs) == SelectSeq(pairs, LAMBDA p : lower(p.k) \notin TRACKING)

\* How the site answers requests.get(url, allow_redirects=True): r.url.
\*   "plain": serves every URL where it is (also: the request fails, final = url)
\*   "moved": /a has moved to /b, the query is kept
\*   "bare":  a request without query string is sent to the landing page /b
Servers == {"plain", "moved", "bare"}

Resolve(srv, url) ==
    IF url.origin = "" THEN url
    ELSE CASE srv = "plain" -> url
           [] srv = "moved" -> [url EXCEPT !.path = "/b"]
           [] srv = "bare" -> IF url.query = <<>> THEN [url EXCEPT !.path = "/b"]
                              ELSE url

\* scrape_news.canonicalize_url(url) when the site answers as srv
news_canonicalize_url(srv, url) ==
    LET u == Resolve(srv, url)
        qs == StripTracking(parse_qsl(u.query, FALSE))
    IN [origin |-> u.origin, path |-> u.path, query |-> urlencode(qs),
        fragment |-> FALSE]

CanonInit ==
    /\ server \in Servers
    /\ cFn \in {"utils", "news"}
    /\ cUrl \in Urls
    /\ cOut = <<>>

CanonIdleState ==
    /\ server = "plain"
    /\ cFn = "idle"
    /\ cUrl = BaseUrl
    /\ cOut = <<>>

\* canonicalize cUrl
CanonOnce ==
    /\ cFn \in {"utils", "news"}
    /\ cOut = <<>>
    /\ cOut' = IF cFn = "utils" THEN <<canonicalize_url(BaseUrl, cUrl)>>
               ELSE <<news_canonicalize_url(server, cUrl)>>
    /\ UNCHANGED <<lateVars, verdictVars, feedVars, fetchVars, batchVars,
                   server, cFn, cUrl, balVars, fpVars, collectVars>>

\* canonicalize the canonical form
CanonAgain ==
    /\ Len(cOut) = 1
    /\ cOut' = IF cFn = "utils" THEN Append(cOut, canonicalize_url(BaseUrl, cOut[1]))
               ELSE Append(cOut, news_canonicalize_url(server, cOut[1]))
    /\ UNCHANGED <<lateVars, verdictVars, feedVars, fetchVars, batchVars,
                   server, cFn, cUrl, balVars, fpVars, collectVars>>

NextCanon ==
    \/ CanonOnce
    \/ CanonAgain

\* C5: canonicalizing the canonical form of any URL returns it unchanged.
C5_Idempotent == Len(cOut) = 2 => cOut[2] = cOut[1]

\* C5 amended: utils.canonicalize_url is idempotent for every URL, and
\* scrape_news.canonicalize_url returns the canonical form unchanged whenever
\* the request it makes for that form ends at that form (the request fails or
\* is not redirected).
C5_IdempotentAmended ==
    (Len(cOut) = 2 /\ (cFn = "utils" \/ Resolve(server, cOut[1]) = cOut[1]))
        => cOut[2] = cOut[1]

\* both functions have been applied twice to a URL they rewrite: parameters out
\* of order, a blank one or a tracking one, an encoded value, a fragment
C5_Witness ==
    /\ Len(cOut) = 2 /\ cOut[2] = cOut[1] /\ cUrl.fragment
    /\ Len(cUrl.query) = 2
    /\ cUrl.query[2].v = "%31"
    /\ \/ cFn = "utils" /\ cUrl.query[1] = [k |-> "b", v |-> "", eq |-> FALSE]
                        /\ cUrl.query[2].k = "a"
       \/ cFn = "news" /\ server = "moved" /\ cUrl.path = "/a"
                       /\ cUrl.query[1].k = "UTM_Source"

---------------------------------------------------------------------------
(* The collectors: pipeline._run_block / save_outputs, and the daily dedup *)
(* of scrape_news.run with consolidate.main                                *)

MaxRows == 2        \* most items (or jobs) of one run
MaxRuns == 2        \* most runs merged into one master file

RECURSIVE drop_duplicates_all(_, _)
\* drop_duplicates() that ignores subset: whole rows are compared
drop_duplicates_all(df, subset) ==
    IF df = <<>> THEN <<>>
    ELSE LET init == drop_duplicates_all(SubSeq(df, 1, Len(df) - 1), subset)
             last == df[Len(df)]
         IN IF \E k \in 1..Len(df) - 1 : df[k] = last THEN init
            ELSE Append(init, last)

RECURSIVE drop_duplicates(_, _)
\* drop_duplicates(subset=...): pandas keeps the first row of every key
drop_duplicates(df, subset) ==
    IF df = <<>> THEN <<>>
    ELSE LET init == drop_duplicates(SubSeq(df, 1, Len(df) - 1), subset)
             last == df[Len(df)]
         IN IF \E k \in 1..Len(df) - 1 :
                  \A c \in subset \cap DOMAIN last : df[k][c] = last[c]
            THEN init
            ELSE Append(init, last)

\* the raw URLs of the items: an article, the same with a tracking parameter,
\* the same with a fragment, and its mirror under another path
CollectUrls ==
    {[origin |-> Origin, path |-> "/a", query |-> <<>>, fragment |-> FALSE],
     [origin |-> Origin, path |-> "/a",
      query |-> <<[k |-> "utm_source", v |-> "1", eq |-> TRUE]>>, fragment |-> FALSE],
     [origin |-> Origin, path |-> "/a", query |-> <<>>, fragment |-> TRUE],
     [origin |-> Origin, path |-> "/b", query |-> <<>>, fragment |-> FALSE]}

\* item titles: a generic one, one with stray white space, two proper ones
Titles == {"Noticias", " Titular  uno ", "Titular uno", "Titular dos"}

Summaries == {"Resumen"}

\* dt.isoformat() of the item's date, "" when it has none
Dates == {"", "2024-01-05T10:00:00"}

\* the items scrape_rss / scrape_html_cards return
RawRows ==
    [url : CollectUrls, title : Titles, summary : Summaries, published_at : Dates]

\* utils.safe_trim on the texts above: stripped, runs of white space made
\* one space (none is longer than max_len)
safe_trim(text) == IF text = " Titular  uno " THEN "Titular uno" ELSE text

\* utils.is_lowinfo_title (the titles it is given are already stripped)
is_lowinfo_title(title) ==
    \/ title = ""
    \/ LET t == lower(title)
           bad == {"última hora", "en vivo", "noticias", "ver más", "leer más",
                   "portada"}
       IN Len(t) < 8 \/ t \in bad

\* a text as a part of the fingerprint: one symbol, or nothing when empty
AsPart(text) == Str(IF text = "" THEN <<>> ELSE <<text>>)

MIN_TITLE_CHARS == 8

\* pipeline._normalize_row: <<>> for a rejected item, else <<the row>>
\* (ENABLE_CONTENT_EXTRACTION is False: the hash is taken over the summary)
normalize_row(row) ==
    LET title == safe_trim(row.title)
        summary == safe_trim(row.summary)
        url_canon == canonicalize_url(BaseUrl, row.url)
        h == content_fingerprint(<<Str(<<url_canon>>), AsPart(row.published_at),
                                   AsPart(title), AsPart(summary)>>)
    IN IF title = "" \/ is_lowinfo_title(title) \/ Len(title) < MIN_TITLE_CHARS
       THEN <<>>
       ELSE <<[title |-> title, summary |-> summary, url |-> row.url,
               url_canonical |-> url_canon, published_at |-> row.published_at,
               content_hash |-> h]>>

RECURSIVE NormalizeAll(_)
\* lines 120-123: the rows that survive _normalize_row, in order
NormalizeAll(data) ==
    IF data = <<>> THEN <<>>
    ELSE normalize_row(Head(data)) \o NormalizeAll(Tail(data))

\* pipeline._run_block on the items of its sources
run_block(data) ==
    drop_duplicates(drop_duplicates(NormalizeAll(data), {"url_canonical"}),
                    {"content_hash"})

\* pd.read_csv: an empty cell of published_at reads back as NaN
read_csv(file) ==
    [n \in 1..Len(file) |->
        IF "published_at" \in DOMAIN file[n] /\ file[n].published_at = ""
        THEN [file[n] EXCEPT !.published_at = "NaN"] ELSE file[n]]

\* DataFrame.to_csv: NaN is written as an empty cell
to_csv(df) ==
    [n \in 1..Len(df) |->
        IF "published_at" \in DOMAIN df[n] /\ df[n].published_at = "NaN"
        THEN [df[n] EXCEPT !.published_at = ""] ELSE df[n]]

\* the master rewritten from the snapshot alone
merge_master_overwrite(m, df) == [exists |-> TRUE, rows |-> to_csv(df)]

\* pipeline.save_outputs for one master file (lines 169-173)
merge_master(m, df) ==
    IF m.exists
    THEN [exists |-> TRUE,
          rows |-> to_csv(drop_duplicates(read_csv(m.rows) \o df,
                                          {"content_hash", "url_canonical"}))]
    ELSE [exists |-> TRUE, rows |-> to_csv(df)]

\* ---- scrape_news.run ----

\* what a fetched article page yields: title, date, body
Pages ==
    [ok : {TRUE}, titulo : {"", "Titular uno", "Titular dos"}, fecha : Dates,
     texto : {"cuerpo"}]

\* the fetch returned nothing
NoPage == [ok |-> FALSE, titulo |-> "", fecha |-> "", texto |-> ""]

PageOutcomes == Pages \cup {NoPage}

EmptyUrl == [origin |-> "", path |-> "", query |-> <<>>, fragment |-> FALSE]

\* url_sha256(u)
url_sha256(u) == [sha256 |-> <<u>>]

\* the empty string in the url_hash column
EmptyHash == [sha256 |-> <<>>]

\* an extractor that canonicalizes the URL before it looks at the fetch
scrape_article_canonical_first(srv, url, page) ==
    LET can == news_canonicalize_url(srv, url)
    IN [fecha |-> page.fecha, titulo |-> page.titulo, texto |-> page.texto,
        url |-> url, url_canonica |-> can, url_hash |-> url_sha256(can)]

\* scrape_news.scrape_article for one job, given what the fetch returned
scrape_article(srv, url, page) ==
    IF ~page.ok
    THEN [fecha |-> "", titulo |-> "", texto |-> "", url |-> url,
          url_canonica |-> EmptyUrl, url_hash |-> EmptyHash]
    ELSE LET can == news_canonicalize_url(srv, url)
         IN [fecha |-> page.fecha, titulo |-> page.titulo, texto |-> page.texto,
             url |-> url, url_canonica |-> can, url_hash |-> url_sha256(can)]

\* order of the fecha strings ("NaN" is a missing value, sorted last)
FechaRank(f) ==
    IF f \in {"", "NaN"} THEN 0 ELSE IF f = "2024-01-05T10:00:00" THEN 1 ELSE 2

RECURSIVE SortedOrders(_, _)
\* the orders sort_values(ascending=False) may return for the row numbers S:
\* non-increasing in rank, rows of equal rank in any order (quicksort)
SortedOrders(S, rank) ==
    IF S = {} THEN {<<>>}
    ELSE UNION {{<<x>> \o t : t \in SortedOrders(S \ {x}, rank)} :
                    x \in {y \in S : \A z \in S : rank[y] >= rank[z]}}

\* lines 455-458: jobs deduplicated by raw URL, first one kept
uq_jobs(jobs) == drop_duplicates([n \in 1..Len(jobs) |-> [url |-> jobs[n]]], {"url"})

\* line 476: rows with a title
WithTitle(results) == SelectSeq(results, LAMBDA r : r.titulo # "")

\* line 478: the dedup key
DedupKey(df) == IF Len(df) > 0 THEN "url_hash" ELSE "url_canonica"

\* line 479 for one order the sort may return
daily_dedup(df, order) ==
    drop_duplicates([n \in 1..Len(df) |-> df[order[n]]], {DedupKey(df)})

\* consolidate.main: the rank of (_fecha_ok, _len_texto, fecha), descending
ConsolidateRank(r) ==
    1000 * (IF r.fecha \in {"", "NaN"} THEN 0 ELSE 1) + 10 * Len(r.texto)
        + FechaRank(r.fecha)

RECURSIVE Concat(_)
Concat(files) == IF files = <<>> THEN <<>> ELSE Head(files) \o Concat(Tail(files))

CollectInit ==
    /\ prog \in {"pipeline", "scrape_news"}
    /\ server \in (IF prog = "pipeline" THEN {"plain"} ELSE Servers)
    /\ collPc = "scrape"
    /\ runs = 0
    /\ rows = <<>>
    /\ snapshot = <<>>
    /\ master = [exists |-> FALSE, rows |-> <<>>]
    /\ daily = <<>>
    /\ historico = <<>>

CollectIdleState ==
    /\ prog = "idle"
    /\ collPc = "idle"
    /\ runs = 0
    /\ rows = <<>>
    /\ snapshot = <<>>
    /\ master = [exists |-> FALSE, rows |-> <<>>]
    /\ daily = <<>>
    /\ historico = <<>>

\* pipeline._run_block for the news sources
RunBlock ==
    /\ prog = "pipeline" /\ collPc = "scrape" /\ runs < MaxRuns
    /\ \E data \in SeqsUpTo(RawRows, MaxRows) :
          /\ rows' = data
          /\ snapshot' = run_block(data)
    /\ collPc' = "save"
    /\ UNCHANGED <<lateVars, verdictVars, feedVars, fetchVars, batchVars,
                   prog, runs, master, daily, historico, server, cFn, cUrl, cOut,
                   balVars, fpVars>>

\* pipeline.save_outputs: the snapshot is merged into the master file
SaveOutputs ==
    /\ prog = "pipeline" /\ collPc = "save"
    /\ master' = merge_master(master, snapshot)
    /\ runs' = runs + 1
    /\ rows' = <<>>
    /\ snapshot' = <<>>
    /\ collPc' = "scrape"
    /\ UNCHANGED <<lateVars, verdictVars, feedVars, fetchVars, batchVars,
                   prog, daily, historico, server, cFn, cUrl, cOut, balVars, fpVars>>

\* scrape_news.run, lines 455-479: jobs, extraction, title filter, daily dedup
RunDaily ==
    /\ prog = "scrape_news" /\ collPc = "scrape" /\ runs < MaxRuns
    /\ \E jobs \in SeqsUpTo(CollectUrls, MaxRows) :
          LET todo == uq_jobs(jobs)
          IN \E pages \in [1..Len(todo) -> PageOutcomes] :
                LET results == [n \in 1..Len(todo) |->
                                    scrape_article(server, todo[n].url, pages[n])]
                    df == WithTitle(results)
                    rank == [n \in 1..Len(df) |-> FechaRank(df[n].fecha)]
                IN \E order \in SortedOrders(1..Len(df), rank) :
                      /\ rows' = results
                      /\ snapshot' = daily_dedup(df, order)
    /\ collPc' = "save"
    /\ UNCHANGED <<lateVars, verdictVars, feedVars, fetchVars, batchVars,
                   prog, runs, master, daily, historico, server, cFn, cUrl, cOut,
                   balVars, fpVars>>

\* lines 560-564: the dataset file of the run holds the rows the balancer
\* selected from the snapshot (any of its rows: the rows carry no label here)
WriteDaily ==
    /\ prog = "scrape_news" /\ collPc = "save"
    /\ \E keep \in SUBSET (1..Len(snapshot)) :
          daily' = Append(daily, SelectSeq(snapshot,
                                   LAMBDA r : \E n \in keep : snapshot[n] = r))
    /\ runs' = runs + 1
    /\ rows' = <<>>
    /\ snapshot' = <<>>
    /\ collPc' = "scrape"
    /\ UNCHANGED <<lateVars, verdictVars, feedVars, fetchVars, batchVars,
                   prog, master, historico, server, cFn, cUrl, cOut, balVars, fpVars>>

\* consolidate.main over the dataset files written so far
Consolidate ==
    /\ prog = "scrape_news" /\ collPc = "scrape" /\ daily # <<>>
    /\ LET df == Concat(daily)
           rank == [n \in 1..Len(df) |-> ConsolidateRank(df[n])]
       IN \E order \in SortedOrders(1..Len(df), rank) :
             historico' = daily_dedup(df, order)
    /\ UNCHANGED <<lateVars, verdictVars, feedVars, fetchVars, batchVars,
                   prog, collPc, runs, rows, snapshot, master, daily, server, cFn,
                   cUrl, cOut, balVars, fpVars>>

\* one run of either collector
NextCollect ==
    \/ RunBlock
    \/ RunDaily

\* runs that merge into the master file / the consolidated history
NextMaster ==
    \/ RunBlock
    \/ SaveOutputs
    \/ RunDaily
    \/ WriteDaily
    \/ Consolidate

---------------------------------------------------------------------------
(* Claims about the collectors                                             *)

\* the canonical URL and the fingerprint of a row of either collector
CanonicalOf(r) ==
    IF "url_canonical" \in DOMAIN r THEN r.url_canonical ELSE r.url_canonica

FingerprintOf(r) ==
    IF "content_hash" \in DOMAIN r THEN r.content_hash ELSE r.url_hash

\* no two rows of df share a canonical URL, and no two a fingerprint
UniqueRows(df) ==
    \A i, j \in 1..Len(df) :
        i # j => /\ CanonicalOf(df[i]) # CanonicalOf(df[j])
                 /\ FingerprintOf(df[i]) # FingerprintOf(df[j])

\* the rows of the run that reach its dedup stage
Candidates ==
    IF prog = "pipeline" THEN NormalizeAll(rows) ELSE WithTitle(rows)

\* C1: for every list of input rows, the snapshot of the collector
\* (_run_block; the daily dedup of scrape_news.run) has no two rows with the
\* same canonical URL and no two rows with the same content fingerprint.
C1_SnapshotUnique == UniqueRows(snapshot)

\* a pipeline run in which two accepted items had the same canonical URL
\* and the dedup dropped one of them
C1_Witness ==
    /\ prog = "pipeline" /\ collPc = "save"
    /\ Len(Candidates) = 2
    /\ Candidates[1].url # Candidates[2].url
    /\ Len(snapshot) = 1

\* C2: after any sequence of runs that each merge their snapshot into the
\* master file (save_outputs / consolidate.main), the master has no two rows
\* with the same canonical URL and no two with the same fingerprint, also
\* when a later run finds a stored URL again with another title or date.
C2_MasterUnique == UniqueRows(master.rows) /\ UniqueRows(historico)

\* the publish date, title and summary / body of a row
ContentOf(r) ==
    IF "content_hash" \in DOMAIN r THEN <<r.published_at, r.title, r.summary>>
    ELSE <<r.fecha, r.titulo, r.texto>>

\* C3: two records with different canonical URLs but identical publish
\* date, title and summary/body (an AMP mirror and the canonical page) are
\* collapsed to one row by the fingerprint dedup stage: the snapshot never
\* holds two rows of identical date, title and summary.
C3_MirrorsCollapsed ==
    \A i, j \in 1..Len(snapshot) :
        i # j => ContentOf(snapshot[i]) # ContentOf(snapshot[j])

\* raw URLs that differ only by tracking query parameters
DifferOnlyByTracking(u1, u2) ==
    /\ u1 # u2
    /\ u1.origin = u2.origin /\ u1.path = u2.path /\ u1.fragment = u2.fragment
    /\ StripTracking(parse_qsl(u1.query, TRUE))
         = StripTracking(parse_qsl(u2.query, TRUE))

\* the canonical form the running collector gives a raw URL
CollectorCanonical(u) ==
    IF prog = "pipeline" THEN canonicalize_url(BaseUrl, u)
    ELSE news_canonicalize_url(server, u)

\* C4: two candidates whose raw URLs differ only by a tracking query
\* parameter canonicalize to the same string, and the collector keeps
\* exactly one of them (on a site that serves both URLs without redirect).
C4_TrackingCollapsed ==
    (collPc = "save" /\ server = "plain") =>
        \A i, j \in 1..Len(Candidates) :
            DifferOnlyByTracking(Candidates[i].url, Candidates[j].url) =>
                /\ CollectorCanonical(Candidates[i].url)
                     = CollectorCanonical(Candidates[j].url)
                /\ Cardinality({n \in 1..Len(snapshot) :
                        CanonicalOf(snapshot[n])
                          = CollectorCanonical(Candidates[i].url)}) = 1

---------------------------------------------------------------------------
(* The verdict classifier: detect_verdict and the label logic of           *)
(* scrape_article, labelers.pick, and collapse of scrape_news.run          *)

\* A text is a sequence of words; norm_ws has made the white space single.
\* Optional[str]: the value None
NoLabel == "None"

\* txt.lower()
Lowered(txt) == [n \in DOMAIN txt |-> lower(txt[n])]

\* VERDICT_PATTERNS, in order: the words and the two-word phrases that
\* re.search finds between word boundaries, and the label
VERDICT_PATTERNS ==
    <<[words |-> {"falso", "bulo", "fake", "mentira"}, pairs |-> {},
       lab |-> "falso"],
      [words |-> {"verdadero", "cierto", "real"}, pairs |-> {},
       lab |-> "verdadero"],
      [words |-> {"engañoso", "engañosa", "engañosos", "engañosas", "cuestionable",
                  "inexacto", "inexacta", "impreciso", "imprecisa", "inchequeable",
                  "noverificable"},
       pairs |-> {<<"no", "verificable">>, <<"parcialmente", "verdadero">>,
                  <<"verdadero", "pero">>},
       lab |-> "dudoso"]>>

\* re.search(pat, txt)
Search(pat, txt) ==
    \/ \E n \in DOMAIN txt : txt[n] \in pat.words
    \/ \E n \in 1..Len(txt) - 1 : <<txt[n], txt[n + 1]>> \in pat.pairs

\* for pat,lab in VERDICT_PATTERNS: if re.search(pat, txt): return lab
FirstMatch(txt) ==
    IF \E k \in DOMAIN VERDICT_PATTERNS : Search(VERDICT_PATTERNS[k], txt)
    THEN LET k == CHOOSE k \in DOMAIN VERDICT_PATTERNS :
                    /\ Search(VERDICT_PATTERNS[k], txt)
                    /\ \A l \in 1..k - 1 : ~Search(VERDICT_PATTERNS[l], txt)
         IN VERDICT_PATTERNS[k].lab
    ELSE NoLabel

\* the texts of the elements the bucket loop visits, in bucket order: the
\* page's h1 comes before its p wherever they stand in the document
BucketTexts(page) == <<page.h1, page.p>>

\* doc.body.text(): the text of every element of the body
BodyText(page) == page.h1 \o page.p \o page.div

\* scrape_news.detect_verdict
detect_verdict(page) ==
    LET els == BucketTexts(page)
        hit(n) == els[n] # <<>> /\ FirstMatch(Lowered(els[n])) # NoLabel
    IN IF \E n \in DOMAIN els : hit(n)
       THEN LET n == CHOOSE n \in DOMAIN els :
                        hit(n) /\ \A m \in 1..n - 1 : ~hit(m)
            IN FirstMatch(Lowered(els[n]))
       ELSE IF FirstMatch(Lowered(page.meta)) # NoLabel
            THEN FirstMatch(Lowered(page.meta))
            ELSE FirstMatch(Lowered(BodyText(page)))

\* a label logic that runs the pattern search whatever the default label
article_estado_always_searches(default_label, page) ==
    LET v == detect_verdict(page)
    IN [estado |-> IF v # NoLabel THEN v
                   ELSE IF default_label = NoLabel THEN "" ELSE default_label,
        searched |-> TRUE]

\* scrape_article, lines 356 and 392-395: the estado of the record
article_estado(default_label, page) ==
    IF default_label = NoLabel
    THEN LET v == detect_verdict(page)
         IN [estado |-> IF v # NoLabel THEN v ELSE "", searched |-> TRUE]
    ELSE [estado |-> default_label, searched |-> FALSE]

\* needle in haystack, for one word of the haystack
InWord(needle, word) ==
    \/ word = needle
    \/ <<needle, word>> \in {<<"real", "realmente">>, <<"falso", "falsos">>}

\* w in r, for a one-word needle
Contains(txt, needle) == \E n \in DOMAIN txt : InWord(needle, lower(txt[n]))

\* labelers.pick
pick(txt, pos, neg, dub) ==
    IF \E w \in pos : Contains(txt, w) THEN "true"
    ELSE IF \E w \in neg : Contains(txt, w) THEN "false"
    ELSE IF \E w \in dub : Contains(txt, w) THEN "doubtful"
    ELSE NoLabel

\* two of the LABELERS: the word lists they hand to pick
LABELERS ==
    [colombiacheck |-> [pos |-> {"verdadero"}, neg |-> {"falso", "engañoso"},
                        dub |-> {"inchequeable", "dudoso"}],
     verificadomx |-> [pos |-> {"verdadero"}, neg |-> {"falso", "bulo"},
                       dub |-> {"dudoso"}]]

\* collapse of scrape_news.run (the estado column holds strings only)
collapse(lbl) ==
    IF Contains(lbl, "falso") THEN "falso"
    ELSE IF Contains(lbl, "verdadero") \/ Contains(lbl, "cierto")
              \/ Contains(lbl, "real")
         THEN "verdadero"
         ELSE "dudoso"

\* a label as a text
AsText(label) == IF label = "" THEN <<>> ELSE <<label>>

\* the texts of a page's elements
PageTexts ==
    {<<>>, <<"hoy">>, <<"falso">>, <<"Falso">>, <<"verdadero">>, <<"engañoso">>,
     <<"parcialmente", "verdadero">>, <<"verdadero", "pero">>}

\* a page: its h1, its p, the content of its og:title meta tag, and the
\* text of the body outside the bucket elements
VerdictPages == [h1 : PageTexts, p : PageTexts, meta : PageTexts, div : PageTexts]

EmptyPage == [h1 |-> <<>>, p |-> <<>>, meta |-> <<>>, div |-> <<>>]

\* the words of the raw label texts
LabelWords ==
    {"falso", "Falso", "falsos", "bulo", "fake", "verdadero", "cierto", "real",
     "realmente", "engañoso", "dudoso", "hoy"}

MaxLabelLen == 2

RawLabels == SeqsUpTo(LabelWords, MaxLabelLen)

\* the label a job carries: None (fact-check source) or "verdadero" (trusted)
DefaultLabels == {NoLabel, "verdadero"}

VerdictInit ==
    /\ vIn \in [mode : {"article"}, page : VerdictPages, default : DefaultLabels,
                raw : {<<>>}, source : {"none"}]
            \cup [mode : {"label"}, page : {EmptyPage}, default : {NoLabel},
                  raw : RawLabels, source : DOMAIN LABELERS]
    /\ vPc = "start"
    /\ vEstado = ""
    /\ vSearched = FALSE
    /\ vPick = "pending"
    /\ vLabels = <<>>

VerdictIdleState ==
    /\ vIn = [mode |-> "idle", page |-> EmptyPage, default |-> NoLabel,
              raw |-> <<>>, source |-> "none"]
    /\ vPc = "idle"
    /\ vEstado = ""
    /\ vSearched = FALSE
    /\ vPick = "pending"
    /\ vLabels = <<>>

\* scrape_article gives the record its estado
Extract ==
    /\ vIn.mode = "article" /\ vPc = "start"
    /\ LET a == article_estado(vIn.default, vIn.page)
       IN vEstado' = a.estado /\ vSearched' = a.searched
    /\ vPc' = "extracted"
    /\ UNCHANGED <<lateVars, vIn, vPick, vLabels, balVars, fpVars, canonVars, collectVars,
                   feedVars, fetchVars, batchVars>>

\* run, lines 482-493: the estado column is normalized (estado is a string,
\* so the isna() fill of line 484 changes nothing)
Normalize ==
    /\ vIn.mode = "article" /\ vPc = "extracted"
    /\ vEstado' = collapse(AsText(vEstado))
    /\ vPc' = "normalized"
    /\ UNCHANGED <<lateVars, vIn, vSearched, vPick, vLabels, balVars, fpVars, canonVars,
                   collectVars, feedVars, fetchVars, batchVars>>

\* the labeler of the source is applied to the raw label text
Pick ==
    /\ vIn.mode = "label" /\ vPick = "pending"
    /\ LET l == LABELERS[vIn.source]
       IN vPick' = pick(vIn.raw, l.pos, l.neg, l.dub)
    /\ UNCHANGED <<lateVars, vIn, vPc, vEstado, vSearched, vLabels, balVars, fpVars, canonVars,
                   collectVars, feedVars, fetchVars, batchVars>>

\* collapse is applied to the raw label text, then to its own result
Collapse ==
    /\ vIn.mode = "label" /\ Len(vLabels) < 2
    /\ vLabels' = Append(vLabels,
                         collapse(IF vLabels = <<>> THEN vIn.raw
                                  ELSE AsText(vLabels[Len(vLabels)])))
    /\ UNCHANGED <<lateVars, vIn, vPc, vEstado, vSearched, vPick, balVars, fpVars, canonVars,
                   collectVars, feedVars, fetchVars, batchVars>>

NextVerdict ==
    \/ Extract
    \/ Normalize
    \/ Pick
    \/ Collapse

---------------------------------------------------------------------------
(* Claims about the verdict classifier                                     *)

\* every text of the page, lowered: the evidence detect_verdict is given
Evidence(page) == Lowered(page.h1 \o page.p \o page.meta \o page.div)

\* the evidence holds a "false" pattern, a "true" pattern
HasFalsePattern(txt) == Search(VERDICT_PATTERNS[1], txt)

HasTruePattern(txt) == Search(VERDICT_PATTERNS[2], txt)

\* C11: whenever the evidence holds both a "false" pattern and a "true"
\* pattern the label is false: for detect_verdict over a page whose
\* elements carry the two patterns in any bucket order, for the labeler of
\* the source (labelers.pick) and for collapse.
C11_FalseWins ==
    /\ (vIn.mode = "article" /\ vPc = "extracted" /\ vIn.default = NoLabel
          /\ HasFalsePattern(Evidence(vIn.page))
          /\ HasTruePattern(Evidence(vIn.page)))
        => vEstado = "falso"
    /\ (vIn.mode = "label" /\ vPick # "pending"
          /\ (\E w \in LABELERS[vIn.source].neg : Contains(vIn.raw, w))
          /\ (\E w \in LABELERS[vIn.source].pos : Contains(vIn.raw, w)))
        => vPick = "false"
    /\ (vIn.mode = "label" /\ vLabels # <<>>
          /\ Contains(vIn.raw, "falso") /\ Contains(vIn.raw, "verdadero"))
        => vLabels[1] = "falso"

\* the doubtful-bucket phrases of the page texts
DoubtfulPhrases ==
    {<<"parcialmente", "verdadero">>, <<"verdadero", "pero">>, <<"engañoso">>}

\* the only verdict evidence of the page is a doubtful-bucket phrase
OnlyDoubtful(page) ==
    /\ \A f \in {"h1", "p", "meta", "div"} :
          page[f] \in DoubtfulPhrases \cup {<<>>, <<"hoy">>}
    /\ \E f \in {"h1", "p", "meta", "div"} : page[f] \in DoubtfulPhrases

\* C12: a text whose only verdict evidence is a doubtful-bucket phrase such
\* as "parcialmente verdadero" or "verdadero pero" is classified as doubtful
\* by the verdict classifier and stays doubtful after label normalization.
C12_DoubtfulPhrase ==
    (vIn.mode = "article" /\ vIn.default = NoLabel /\ OnlyDoubtful(vIn.page)
        /\ vPc \in {"extracted", "normalized"})
      => vEstado = "dudoso"

\* the label the normalization is to give a raw verdict text
ExpectedLabel(raw) ==
    IF \E w \in {"falso", "bulo", "fake"} : Contains(raw, w) THEN "falso"
    ELSE IF \E w \in {"verdadero", "cierto", "real"} : Contains(raw, w)
         THEN "verdadero"
         ELSE "dudoso"

\* C13: label normalization maps, case-insensitively, any raw verdict text
\* containing falso, bulo or fake to false, otherwise any text containing
\* verdadero, cierto or real to true, and every other text to doubtful; its
\* result is one of the three class labels, and applying it twice gives the
\* same label as applying it once.
C13_Collapse ==
    vIn.mode = "label" =>
        /\ vLabels # <<>> =>
              vLabels[1] = ExpectedLabel(vIn.raw) /\ vLabels[1] \in Labels
        /\ Len(vLabels) = 2 => vLabels[2] = vLabels[1]

\* C14: for a candidate of a source with a fixed label (trusted outlet =>
\* "verdadero") the verdict pattern search is never run and the estado of
\* the record is the fixed label whatever verdict words the page holds,
\* right after extraction and after the normalization.
C14_FixedLabel ==
    (vIn.mode = "article" /\ vIn.default # NoLabel
        /\ vPc \in {"extracted", "normalized"})
      => vEstado = vIn.default /\ ~vSearched

\* a trusted record whose page says "falso" has been normalized
C14_Witness ==
    /\ vIn.mode = "article" /\ vIn.default = "verdadero"
    /\ vIn.page.h1 = <<"falso">>
    /\ vPc = "normalized"

---------------------------------------------------------------------------
(* The feed discoverers: scrapers.scrape_rss and scrape_news.urls_from_rss *)

MaxEntries == 2     \* most entries of a feed

DEFAULT_LOOKBACK_DAYS == 10

\* Times are hours since 2024-01-01T00:00 UTC.
\* the publish times of the entries: 2024-01-05T10:00 and 2024-01-15T10:00
EntryTimes == {4 * 24 + 10, 14 * 24 + 10}

\* the run times: 2024-01-20, at 00:00 and at 12:00
RunTimes == {19 * 24, 19 * 24 + 12}

\* what the date parser makes of an entry's timestamp: the entry has none,
\* it cannot be parsed, a datetime without tzinfo, a datetime with tzinfo
Timestamps ==
    [kind : {"none", "unparseable"}, time : {0}]
        \cup [kind : {"naive", "aware"}, time : EntryTimes]

\* a feed entry: whether it has a title and a link, and its timestamp
Entries == [title : BOOLEAN, link : BOOLEAN, ts : Timestamps]

\* the feeds: the fetch failed, the document holds no entry that can be
\* parsed, or it holds entries
Feeds ==
    [fetch : {"fail", "unparseable"}, entries : {<<>>}]
        \cup [fetch : {"ok"}, entries : SeqsUpTo(Entries, MaxEntries)]

\* pub < datetime.utcnow() - timedelta(days=limit_days), for a naive pub
Older(time, now, limit_days) == time < now - 24 * limit_days

RECURSIVE RssItems(_, _, _, _)
\* scrape_rss, lines 84-109: the loop over the items, out so far given.
\* Comparing a datetime that has tzinfo with utcnow() raises TypeError.
RssItems(entries, now, limit_days, out) ==
    IF entries = <<>> THEN [raised |-> FALSE, items |-> out]
    ELSE LET e == Head(entries)
             pub == IF e.ts.kind \in {"naive", "aware"} THEN e.ts ELSE
                       [kind |-> "none", time |-> 0]
         IN IF ~e.title \/ ~e.link
            THEN RssItems(Tail(entries), now, limit_days, out)
            ELSE IF pub.kind = "aware"
            THEN [raised |-> TRUE, items |-> <<>>]
            ELSE IF pub.kind = "naive" /\ Older(pub.time, now, limit_days)
            THEN RssItems(Tail(entries), now, limit_days, out)
            ELSE RssItems(Tail(entries), now, limit_days,
                          Append(out, [e EXCEPT !.ts = pub]))

\* scrapers.scrape_rss (fetch_html gives None when the fetch fails)
scrape_rss(feed, now, limit_days) ==
    IF feed.fetch = "fail" THEN [raised |-> FALSE, items |-> <<>>]
    ELSE RssItems(feed.entries, now, limit_days, <<>>)

\* parse_date_any: None unless the text parses; a datetime with tzinfo is
\* converted to UTC (the aware timestamps here are in UTC already)
parse_date_any(ts) ==
    IF ts.kind \in {"naive", "aware"} THEN ts ELSE [kind |-> "none", time |-> 0]

\* scrape_news.urls_from_rss: the first limit entries, those with a link
urls_from_rss(feed, limit) ==
    LET first == SubSeq(feed.entries, 1, Min(limit, Len(feed.entries)))
        out == [n \in DOMAIN first |-> [first[n] EXCEPT !.ts = parse_date_any(@)]]
    IN [raised |-> FALSE, items |-> SelectSeq(out, LAMBDA x : x.link)]

FeedInit ==
    /\ feedIn \in [fn : {"scrape_rss", "urls_from_rss"}, feed : Feeds,
                   now : RunTimes, limit : 1..MaxEntries]
    /\ feedPc = "call"
    /\ feedOut = [raised |-> FALSE, items |-> <<>>]

FeedIdleState ==
    /\ feedIn = [fn |-> "idle", feed |-> [fetch |-> "fail", entries |-> <<>>],
                 now |-> 0, limit |-> 0]
    /\ feedPc = "idle"
    /\ feedOut = [raised |-> FALSE, items |-> <<>>]

\* _run_block calls scrape_rss(url, limit_days=DEFAULT_LOOKBACK_DAYS)
ScrapeRss ==
    /\ feedIn.fn = "scrape_rss" /\ feedPc = "call"
    /\ feedOut' = scrape_rss(feedIn.feed, feedIn.now, DEFAULT_LOOKBACK_DAYS)
    /\ feedPc' = "returned"
    /\ UNCHANGED <<lateVars, feedIn, balVars, fpVars, canonVars, collectVars, verdictVars,
                   fetchVars, batchVars>>

\* run calls urls_from_rss(src["rss"], max_trusted)
UrlsFromRss ==
    /\ feedIn.fn = "urls_from_rss" /\ feedPc = "call"
    /\ feedOut' = urls_from_rss(feedIn.feed, feedIn.limit)
    /\ feedPc' = "returned"
    /\ UNCHANGED <<lateVars, feedIn, balVars, fpVars, canonVars, collectVars, verdictVars,
                   fetchVars, batchVars>>

NextFeed ==
    \/ ScrapeRss
    \/ UrlsFromRss

---------------------------------------------------------------------------
(* Claims about the feed discoverers                                       *)

\* the entries the discoverer considers: all of them for scrape_rss, the
\* first limit for urls_from_rss
Considered ==
    IF feedIn.fn = "urls_from_rss"
    THEN SubSeq(feedIn.feed.entries, 1, Min(feedIn.limit, Len(feedIn.feed.entries)))
    ELSE feedIn.feed.entries

\* the entry's timestamp parses and is older than the lookback window
Stale(e) ==
    /\ e.ts.kind \in {"naive", "aware"}
    /\ Older(e.ts.time, feedIn.now, DEFAULT_LOOKBACK_DAYS)

\* C15: the feed discoverer drops every entry whose parsed timestamp is
\* older than lookbackDays before the run time and keeps every entry that
\* has no parseable timestamp; an entry published 2024-01-05T10:00:00Z with
\* lookbackDays 10 and run date 2024-01-20 is dropped.
C15_LookbackWindow ==
    feedPc = "returned" =>
        /\ \A n \in DOMAIN feedOut.items : ~Stale(feedOut.items[n])
        /\ \A n \in DOMAIN Considered :
              LET e == Considered[n]
              IN (e.title /\ e.link /\ e.ts.kind \in {"none", "unparseable"})
                    => \E m \in DOMAIN feedOut.items :
                          feedOut.items[m] = [e EXCEPT !.ts = parse_date_any(@)]

---------------------------------------------------------------------------
(* The fetchers: fetch_httpx, fetch_requests (scrape_news.py) and          *)
(* fetch_html with _http_get (scrapers.py)                                 *)

RETRIES == 2

\* stop_after_attempt(3) of _http_get
HTTP_GET_ATTEMPTS == 3

\* what one HTTP attempt may give: a page, an exception (timeout,
\* connection reset), a status outside 2xx/3xx, or an empty body
AttemptOutcomes == {"ok", "timeout", "reset", "status_404", "status_503", "empty_body"}

Exceptions == {"timeout", "reset"}

Fetchers == {"httpx", "requests", "fetch_html"}

Pending == [state |-> "pending", warned |-> FALSE]

\* fetch_httpx after the attempts att, the last of them just made
after_httpx(att) ==
    IF att[Len(att)] = "ok" THEN [state |-> "content", warned |-> FALSE]
    ELSE IF Len(att) < RETRIES + 1 THEN Pending
    ELSE [state |-> "none", warned |-> \E n \in DOMAIN att : att[n] \in Exceptions]

\* fetch_requests after its attempt
after_requests(att) ==
    IF att[Len(att)] = "ok" THEN [state |-> "content", warned |-> FALSE]
    ELSE [state |-> "none", warned |-> att[Len(att)] \in Exceptions]

\* fetch_html after the attempts att of _http_get: tenacity retries on an
\* exception only; any response is returned, and an empty document gives None
after_fetch_html(att) ==
    LET last == att[Len(att)]
    IN IF last \in Exceptions
       THEN IF Len(att) < HTTP_GET_ATTEMPTS THEN Pending
            ELSE [state |-> "none", warned |-> TRUE]
       ELSE IF last = "empty_body" THEN [state |-> "none", warned |-> FALSE]
       ELSE [state |-> "content", warned |-> FALSE]

FetchInit ==
    /\ fetcher \in Fetchers
    /\ attempts = <<>>
    /\ fetchRes = Pending

FetchIdleState ==
    /\ fetcher = "idle"
    /\ attempts = <<>>
    /\ fetchRes = Pending

\* one HTTP attempt of the fetcher and what the fetcher does with it
Attempt ==
    /\ fetcher \in Fetchers /\ fetchRes.state = "pending"
    /\ \E o \in AttemptOutcomes :
          LET att == Append(attempts, o)
          IN /\ attempts' = att
             /\ fetchRes' = CASE fetcher = "httpx" -> after_httpx(att)
                              [] fetcher = "requests" -> after_requests(att)
                              [] fetcher = "fetch_html" -> after_fetch_html(att)
    /\ UNCHANGED <<lateVars, fetcher, balVars, fpVars, canonVars, collectVars, verdictVars,
                   feedVars, batchVars>>

NextFetch == Attempt

---------------------------------------------------------------------------
(* Claims about the fetchers                                               *)

\* the attempts the fetcher may make
MaxAttempts == IF fetcher = "fetch_html" THEN HTTP_GET_ATTEMPTS ELSE RETRIES + 1

\* C20: a transient fetch failure (exception, status outside 2xx/3xx,
\* empty body) is retried a bounded number of times (at most RETRIES+1 = 3
\* attempts, 3 for _http_get), the fetch returns at the first successful
\* attempt, and after the attempts are exhausted the URL is skipped with a
\* logged warning and no exception reaches the caller; for the primary and
\* for the alternate fetcher.
C20_BoundedRetry ==
    /\ Len(attempts) <= MaxAttempts
    /\ fetchRes.state # "raised"
    /\ fetchRes.state = "content" =>
          /\ attempts[Len(attempts)] = "ok"
          /\ \A n \in 1..Len(attempts) - 1 : attempts[n] # "ok"
    /\ fetchRes.state = "none" =>
          /\ Len(attempts) = MaxAttempts
          /\ \A n \in DOMAIN attempts : attempts[n] # "ok"
          /\ fetchRes.warned

---------------------------------------------------------------------------
(* The extraction of scrape_news.run, lines 455-479: the jobs are cut in   *)
(* chunks of BATCH, the tasks of a chunk run under a semaphore of          *)
(* CONCURRENCY permits, asyncio.gather collects their records              *)

CONCURRENCY == 2    \* permits of the semaphore (10 in the source)
BATCH == 3          \* jobs per chunk (50 in the source)
MaxJobs == 4        \* most jobs of a run

\* uq: lists of distinct raw URLs
JobLists ==
    {j \in SeqsUpTo(CollectUrls, MaxJobs) :
        \A a, b \in DOMAIN j : a # b => j[a] # j[b]}

\* what the fetch of an article gives: nothing, or a page with a title
BatchPages ==
    {NoPage} \cup [ok : {TRUE}, titulo : {"Titular uno", "Titular dos"},
                   fecha : Dates, texto : {"cuerpo"}]

\* the jobs of the current chunk: uq[i:i+BATCH]
Chunk == {n \in DOMAIN uq : bNext <= n /\ n < bNext + BATCH}

\* the tasks that hold a permit
InFlight == {n \in DOMAIN uq : task[n] = "running"}

\* asyncio.Semaphore.acquire returns only while the value is positive
CanAcquireAlways(value) == TRUE

CanAcquire(value) == value > 0

\* a gather that lists the records in the order the tasks finished
gather_as_completed(chunk, g, done_order) ==
    [k \in 1..Len(done_order) |-> g[done_order[k]]]

\* asyncio.gather: the records in the order the tasks were submitted
gather(chunk, g, done_order) ==
    LET lo == CHOOSE n \in chunk : \A m \in chunk : n <= m
    IN [k \in 1..Cardinality(chunk) |-> g[lo + k - 1]]

\* sort_values(by fecha, descending) is a function of the frame: the order
\* of rows with equal fecha is fixed by the algorithm, either their order in
\* the frame or the reverse of it
SortOrder(kind, df) ==
    LET idx == [n \in 1..Len(df) |-> n]
        rev == [n \in 1..Len(df) |-> Len(df) + 1 - n]
        rank == [n \in 1..Len(df) |-> FechaRank(df[n].fecha)]
    IN sorted(IF kind = "first_first" THEN idx ELSE rev, rank, TRUE)

\* line 356: the record scrape_article starts from
InitialRecord(url) ==
    [fecha |-> "", titulo |-> "", texto |-> "", url |-> url,
     url_canonica |-> EmptyUrl, url_hash |-> EmptyHash]

BatchInit ==
    /\ uq \in JobLists
    /\ sortKind \in {"first_first", "last_first"}
    /\ bPc = "batch"
    /\ bNext = 1
    /\ task = [n \in DOMAIN uq |-> "new"]
    /\ sem = CONCURRENCY
    /\ got = [n \in DOMAIN uq |-> InitialRecord(uq[n])]
    /\ failed = {}
    /\ completed = <<>>
    /\ bResults = <<>>
    /\ bSnapshot = <<>>

BatchIdleState ==
    /\ uq = <<>>
    /\ sortKind = "first_first"
    /\ bPc = "idle"
    /\ bNext = 1
    /\ task = <<>>
    /\ sem = CONCURRENCY
    /\ got = <<>>
    /\ failed = {}
    /\ completed = <<>>
    /\ bResults = <<>>
    /\ bSnapshot = <<>>

\* lines 470-472: the tasks of the next chunk are created and awaited
StartBatch ==
    /\ bPc = "batch" /\ bNext <= Len(uq)
    /\ task' = [n \in DOMAIN uq |-> IF n \in Chunk THEN "waiting" ELSE task[n]]
    /\ completed' = <<>>
    /\ bPc' = "gather"
    /\ UNCHANGED <<lateVars, uq, bNext, sem, got, failed, bResults, bSnapshot, sortKind,
                   balVars, fpVars, canonVars, collectVars, verdictVars, feedVars,
                   fetchVars>>

\* line 467: a task enters "async with sem"
Acquire ==
    /\ bPc = "gather"
    /\ \E n \in Chunk :
          /\ task[n] = "waiting" /\ CanAcquire(sem)
          /\ task' = [task EXCEPT ![n] = "running"]
    /\ sem' = sem - 1
    /\ UNCHANGED <<lateVars, uq, bPc, bNext, got, failed, completed, bResults, bSnapshot,
                   sortKind, balVars, fpVars, canonVars, collectVars, verdictVars,
                   feedVars, fetchVars>>

\* line 468: scrape_article returns (the fetch gave a page or nothing) and
\* the task leaves "async with sem"
Finish ==
    /\ bPc = "gather"
    /\ \E n \in Chunk : \E page \in BatchPages :
          /\ task[n] = "running"
          /\ got' = [got EXCEPT ![n] = scrape_article(server, uq[n], page)]
          /\ failed' = IF page.ok THEN failed ELSE failed \cup {n}
          /\ task' = [task EXCEPT ![n] = "done"]
          /\ completed' = Append(completed, n)
    /\ sem' = sem + 1
    /\ UNCHANGED <<lateVars, uq, bPc, bNext, bResults, bSnapshot, sortKind, balVars, fpVars,
                   canonVars, collectVars, verdictVars, feedVars, fetchVars>>

\* lines 472-473: gather returns, its rows are appended to results
Gather ==
    /\ bPc = "gather"
    /\ \A n \in Chunk : task[n] = "done"
    /\ bResults' = bResults \o gather(Chunk, got, completed)
    /\ bNext' = bNext + BATCH
    /\ bPc' = "batch"
    /\ UNCHANGED <<lateVars, uq, task, sem, got, failed, completed, bSnapshot, sortKind,
                   balVars, fpVars, canonVars, collectVars, verdictVars, feedVars,
                   fetchVars>>

\* lines 475-479: the title filter and the sort-then-dedup of the day
Dedup ==
    /\ bPc = "batch" /\ bNext > Len(uq)
    /\ LET df == WithTitle(bResults)
       IN bSnapshot' = daily_dedup(df, SortOrder(sortKind, df))
    /\ bPc' = "done"
    /\ UNCHANGED <<lateVars, uq, bNext, task, sem, got, failed, completed, bResults, sortKind,
                   balVars, fpVars, canonVars, collectVars, verdictVars, feedVars,
                   fetchVars>>

NextBatch ==
    \/ StartBatch
    \/ Acquire
    \/ Finish
    \/ Gather
    \/ Dedup

---------------------------------------------------------------------------
(* Claims about the extraction                                             *)

\* the record of a job is empty: no title, body, canonical URL, fingerprint
EmptyRecord(r) ==
    /\ r.titulo = "" /\ r.texto = ""
    /\ r.url_canonica = EmptyUrl /\ r.url_hash = EmptyHash

\* C17: a failed article fetch never aborts its batch or the run:
\* scrape_article returns a record whose title, body, canonical URL and
\* fingerprint are empty, the other fetches of the batch still complete and
\* contribute their records, and the empty record is removed by the
\* empty-title filter before dedup.
C17_FailedFetchIsolated ==
    /\ \A n \in failed : task[n] = "done" /\ EmptyRecord(got[n])
    /\ bPc = "done" =>
          /\ Len(bResults) = Len(uq)
          /\ \A n \in DOMAIN uq : task[n] = "done" /\ bResults[n] = got[n]
          /\ \A k \in DOMAIN bSnapshot : ~EmptyRecord(bSnapshot[k])
          /\ \A n \in DOMAIN uq \ failed :
                \E k \in DOMAIN bSnapshot : bSnapshot[k].url_hash = got[n].url_hash

\* a run is over in which the first fetch to finish failed and a later one
\* of the same chunk gave a row of the snapshot
C17_Witness ==
    /\ bPc = "done"
    /\ Len(completed) >= 2
    /\ completed[1] \in failed
    /\ completed[2] \notin failed
    /\ bSnapshot # <<>>

\* C18: in every reachable state of a run the number of article extractions
\* in flight (tasks that acquired the permit and have not released it) is
\* at most CONCURRENCY, for any number of queued jobs and any completion
\* order; a permit is released when its extraction finishes, whether it
\* succeeded or failed.
C18_PermitBound ==
    /\ Cardinality(InFlight) <= CONCURRENCY
    /\ sem = CONCURRENCY - Cardinality(InFlight)

\* the chunk has more tasks than there are permits, every permit is taken,
\* and one of them was given back by an extraction that failed
C18_Witness ==
    /\ Cardinality(Chunk) > CONCURRENCY
    /\ Cardinality(InFlight) = CONCURRENCY
    /\ \E n \in failed : n \in Chunk

\* the frame of the run, from the records by job number
FrameByJob == WithTitle([n \in DOMAIN uq |-> got[n]])

\* C19: the deduplicated snapshot is independent of the fetch completion
\* order: it is the sort-then-dedup of the records taken by job number,
\* whatever the order in which the fetches of the batches completed, also
\* when colliding records have equal or empty publish dates.
C19_OrderIndependent ==
    bPc = "done" =>
        bSnapshot = daily_dedup(FrameByJob, SortOrder(sortKind, FrameByJob))

\* a run is over whose fetches finished out of submission order and whose
\* records collide on the key with equal dates and different titles
C19_Witness ==
    /\ bPc = "done"
    /\ \E k \in 1..Len(completed) - 1 : completed[k] > completed[k + 1]
    /\ \E a, b \in DOMAIN uq \ failed :
          /\ a # b
          /\ got[a].url_hash = got[b].url_hash
          /\ got[a].fecha = got[b].fecha
          /\ got[a].titulo # got[b].titulo

---------------------------------------------------------------------------
(* Listing discovery: scrape_news.run lines 418-453 with listing_pages,    *)
(* get_listing_html, parse_listing and drop_listing_base, and              *)
(* scrapers.scrape_html_cards.                                             *)

\* the --pages argument / max_pages
MaxPagesArg == 2

\* --max-per-trusted / --max-per-factcheck
MaxPerSource == 2

SiteOrigin == "https://sitio"

\* src["listing_url"], the one entry of src["listing_urls"]
listing_url == "https://sitio/seccion"

\* the anchors of a listing page, as lists of href attributes: two articles,
\* the link back to the listing itself, an image
PageHtmls ==
    {<<>>, <<"/a">>, <<"/b", "/a">>, <<"/seccion/", "/b">>,
     <<"/a", "/foto.jpg", "/a">>}

\* the request raised, or its status was not in 200..399
FetchFailed == [ok |-> FALSE, anchors |-> <<>>]

PageFetches == {FetchFailed} \cup {[ok |-> TRUE, anchors |-> a] : a \in PageHtmls}

\* listing_pages: the base URL, then three URL forms for each page 2..pages
listing_pages(pages) ==
    <<[p |-> 1, form |-> "base"]>>
        \o Concat([k \in 1..pages - 1 |->
                     <<[p |-> k + 1, form |-> "/page/"],
                       [p |-> k + 1, form |-> "?page="],
                       [p |-> k + 1, form |-> "?p="]>>])

\* scrapers._page_url for page = 1..max_pages
page_urls(max_pages) == [k \in 1..max_pages |-> [p |-> k, form |-> "?page="]]

Discoverers == {"trusted", "factcheck", "html_cards"}

\* the page URLs a discoverer fetches
PageList(fn, pages) ==
    IF fn = "html_cards" THEN page_urls(pages) ELSE listing_pages(pages)

ListingInputs ==
    UNION {[fn : {f}, pages : {p},
            fetched : [1..Len(PageList(f, p)) -> PageFetches],
            max : 1..MaxPerSource] : f \in Discoverers, p \in 1..MaxPagesArg}

\* get_listing_html / fetch_html: the text of the page, or None
get_listing_html(in, k) == in.fetched[k]

\* any(href.endswith(ext) for ext in (".jpg", ..., "#")) on the links above
endswith_media(href) == href = "https://sitio/foto.jpg"

RECURSIVE first_seen(_)
\* the seen/clean loop: each URL kept at its first position
first_seen(urls) ==
    IF urls = <<>> THEN <<>>
    ELSE LET init == first_seen(SubSeq(urls, 1, Len(urls) - 1))
             u == urls[Len(urls)]
         IN IF u \in Range(init) THEN init ELSE Append(init, u)

\* parse_listing with no restrict_paths: every href starts with "/" and is
\* joined to the origin, media links are skipped, repeats are removed
parse_listing(html) ==
    LET joined == [k \in 1..Len(html) |-> SiteOrigin \o html[k]]
    IN first_seen(SelectSeq(joined, LAMBDA h : ~endswith_media(h)))

\* u.rstrip("/") on the links above
rstrip(u) == IF u = "https://sitio/seccion/" THEN "https://sitio/seccion" ELSE u

drop_listing_base(urls, listing_bases) ==
    LET bases == {rstrip(b) : b \in listing_bases}
    IN SelectSeq(urls, LAMBDA u : rstrip(u) \notin bases)

RECURSIVE capped_dedup(_, _, _)
\* lines 447-451: dedup by raw URL, leaving the loop at max_fact entries
capped_dedup(found, clean, max_fact) ==
    IF found = <<>> THEN clean
    ELSE LET u == Head(found)
             next == IF u \in Range(clean) THEN clean ELSE Append(clean, u)
         IN IF Len(next) >= max_fact THEN next
            ELSE capped_dedup(Tail(found), next, max_fact)

\* lines 432-433: for u in found[:max_trusted]
trusted_candidates(found, max_trusted) ==
    SubSeq(found, 1, Min(max_trusted, Len(found)))

\* lines 443-451 with no article_patterns configured
factcheck_candidates(found, max_fact) ==
    capped_dedup(drop_listing_base(found, {listing_url}), <<>>, max_fact)

ListInit ==
    /\ lsIn \in ListingInputs
    /\ lsPc = "fetch"
    /\ lsPage = 1
    /\ lsFound = <<>>
    /\ lsOut = <<>>

\* lines 428-431 / 439-442: one listing page of a source of run
HarvestPage ==
    /\ lsPc = "fetch" /\ lsIn.fn # "html_cards"
    /\ LET html_text == get_listing_html(lsIn, lsPage)
       IN lsFound' = IF ~html_text.ok THEN lsFound
                     ELSE lsFound \o parse_listing(html_text.anchors)
    /\ lsPage' = lsPage + 1
    /\ lsPc' = IF lsPage = Len(lsIn.fetched) THEN "cap" ELSE "fetch"
    /\ UNCHANGED <<lsIn, lsOut, keepVars, sanVars, dispatchVars, mergeVars, stratVars,
                   balVars, fpVars, canonVars, collectVars, verdictVars, feedVars,
                   fetchVars, batchVars>>

\* lines 432-433: the jobs of a trusted listing source
CapTrusted ==
    /\ lsPc = "cap" /\ lsIn.fn = "trusted"
    /\ lsOut' = trusted_candidates(lsFound, lsIn.max)
    /\ lsPc' = "done"
    /\ UNCHANGED <<lsIn, lsPage, lsFound, keepVars, sanVars, dispatchVars, mergeVars,
                   stratVars, balVars, fpVars, canonVars, collectVars, verdictVars,
                   feedVars, fetchVars, batchVars>>

\* lines 443-453: the jobs of a fact-check source
CapFactcheck ==
    /\ lsPc = "cap" /\ lsIn.fn = "factcheck"
    /\ lsOut' = factcheck_candidates(lsFound, lsIn.max)
    /\ lsPc' = "done"
    /\ UNCHANGED <<lsIn, lsPage, lsFound, keepVars, sanVars, dispatchVars, mergeVars,
                   stratVars, balVars, fpVars, canonVars, collectVars, verdictVars,
                   feedVars, fetchVars, batchVars>>

\* scrapers.scrape_html_cards lines 41-77: one page; every card has a title
\* and a link, and no date older than the look-back window
CardsPage ==
    /\ lsPc = "fetch" /\ lsIn.fn = "html_cards"
    /\ LET soup == get_listing_html(lsIn, lsPage)
           stop == ~soup.ok \/ (soup.anchors = <<>> /\ lsPage > 1)
       IN /\ lsOut' = IF stop THEN lsOut ELSE lsOut \o soup.anchors
          /\ lsPage' = IF stop THEN lsPage ELSE lsPage + 1
          /\ lsPc' = IF stop \/ lsPage = Len(lsIn.fetched) THEN "done" ELSE "fetch"
    /\ UNCHANGED <<lsIn, lsFound, keepVars, sanVars, dispatchVars, mergeVars,
                   stratVars, balVars, fpVars, canonVars, collectVars, verdictVars,
                   feedVars, fetchVars, batchVars>>

NextListing == HarvestPage \/ CapTrusted \/ CapFactcheck \/ CardsPage

\* the links a discoverer harvests from one fetched page
PageLinks(in, k) ==
    IF in.fn = "html_cards" THEN in.fetched[k].anchors
    ELSE parse_listing(in.fetched[k].anchors)

\* the links the discoverer harvested
Harvested == IF lsIn.fn = "html_cards" THEN lsOut ELSE lsFound

\* C21: when the fetch of a listing page fails, the links of every other page
\* of the source, the pages after the failed one included, are harvested, and
\* a source none of whose listing pages could be fetched yields no candidate.
C21_FailedPageSkipped ==
    lsPc = "done" =>
        /\ (\E k \in DOMAIN lsIn.fetched : ~lsIn.fetched[k].ok) =>
              \A k \in DOMAIN lsIn.fetched :
                  lsIn.fetched[k].ok =>
                      Range(PageLinks(lsIn, k)) \subseteq Range(Harvested)
        /\ (\A k \in DOMAIN lsIn.fetched : ~lsIn.fetched[k].ok) => lsOut = <<>>

\* the article URLs discovered on the fetched pages, in first-seen order
Discovered ==
    first_seen(drop_listing_base(
        Concat([k \in DOMAIN lsIn.fetched |-> parse_listing(lsIn.fetched[k].anchors)]),
        {listing_url}))

\* position of the first occurrence of u in urls
FirstIndex(urls, u) ==
    CHOOSE k \in 1..Len(urls) : urls[k] = u /\ \A m \in 1..k - 1 : urls[m] # u

\* C22: the candidate list of a listing source holds each raw URL at most
\* once, in first-seen discovery order, never the listing root, and at most
\* the per-source maximum of entries; exactly that many when at least that
\* many distinct article URLs were discovered.
C22_CandidateList ==
    (lsPc = "done" /\ lsIn.fn # "html_cards") =>
        /\ \A i, j \in 1..Len(lsOut) : i # j => lsOut[i] # lsOut[j]
        /\ \A i, j \in 1..Len(lsOut) :
              i < j => FirstIndex(lsFound, lsOut[i]) <= FirstIndex(lsFound, lsOut[j])
        /\ \A i \in 1..Len(lsOut) : rstrip(lsOut[i]) # rstrip(listing_url)
        /\ Len(lsOut) <= lsIn.max
        /\ Len(Discovered) >= lsIn.max => Len(lsOut) = lsIn.max

---------------------------------------------------------------------------
(* Which of the records colliding on the dedup key is kept: the sort and   *)
(* drop_duplicates(keep="first") of scrape_news.run line 479,              *)
(* consolidate.main lines 29-30 and clean_historico.main lines 36-37.      *)

\* records colliding on one key
MaxCollide == 3

Deduplicators == {"run", "consolidate", "clean_historico"}

\* records of one url_hash: without a date or with one of two dates, with a
\* short or a long body (titles pass the filters of clean_historico)
CollidingRows ==
    [url_hash : {"h"}, fecha : {"", "2024-01-05T10:00:00", "2024-02-01T08:00:00"},
     texto : {"corto", "cuerpo largo"}]

KeepInputs ==
    [fn : Deduplicators,
     df : UNION {[1..n -> CollidingRows] : n \in 1..MaxCollide}]

\* the sort key, descending, as one number: by fecha alone in run, by
\* (_fecha_ok, _len_texto, fecha) in consolidate and clean_historico
sort_rank(fn, r) == IF fn = "run" THEN FechaRank(r.fecha) ELSE ConsolidateRank(r)

KeepInit ==
    /\ keepIn \in KeepInputs
    /\ keepPc = "sort"
    /\ keepOut = <<>>

\* sort_values(..., ascending=False).drop_duplicates(subset=[key], keep="first")
KeepFirst ==
    /\ keepPc = "sort"
    /\ LET df == keepIn.df
           rank == [n \in 1..Len(df) |-> sort_rank(keepIn.fn, df[n])]
       IN \E order \in SortedOrders(1..Len(df), rank) :
             keepOut' = drop_duplicates([n \in 1..Len(df) |-> df[order[n]]],
                                        {"url_hash"})
    /\ keepPc' = "done"
    /\ UNCHANGED <<keepIn, listVars, sanVars, dispatchVars, mergeVars, stratVars,
                   balVars, fpVars, canonVars, collectVars, verdictVars, feedVars,
                   fetchVars, batchVars>>

NextKeep == KeepFirst

\* the order of the specification as one number: date presence, then the
\* publish date, then the body length
CompletenessRank(r) ==
    1000 * (IF r.fecha = "" THEN 0 ELSE 1) + 100 * FechaRank(r.fecha) + Len(r.texto)

\* C23: of the records colliding on the dedup key the one kept is first
\* under: dated before undated, then more recent date, then longer body.
C23_KeptIsBest ==
    keepPc = "done" =>
        /\ Len(keepOut) = 1
        /\ \A n \in 1..Len(keepIn.df) :
              CompletenessRank(keepOut[1]) >= CompletenessRank(keepIn.df[n])

\* a dated record is never discarded in favour of an undated one
DatedBeatsUndated ==
    keepPc = "done" =>
        ((\E n \in 1..Len(keepIn.df) : keepIn.df[n].fecha # "")
            => keepOut[1].fecha # "")

---------------------------------------------------------------------------
(* sanitize_text of scripts/scrape_news.py (lines 89-110), mapped over     *)
(* every column before the semicolon-separated write (lines 566-570).      *)

\* characters of the input string
MaxStrLen == 3

\* a letter, a space, a newline, a tab, a control character (U+0001) and the
\* HTML entity of the ampersand
Chars == {"a", " ", "\n", "\t", "SOH", "&amp;"}

SanInputs == SeqsUpTo(Chars, MaxStrLen)

Blanks == {" ", "\t"}

\* html.unescape
unescape(s) == [k \in 1..Len(s) |-> IF s[k] = "&amp;" THEN "&" ELSE s[k]]

\* "".join(ch for ch in s if ch == "\n" or ch == "\t" or ord(ch) >= 32)
drop_controls(s) == SelectSeq(s, LAMBDA ch : ch # "SOH")

\* the length of the run of blanks s starts with
BlankRun(s) ==
    IF s = <<>> \/ Head(s) \notin Blanks THEN 0
    ELSE CHOOSE n \in 1..Len(s) :
            /\ \A k \in 1..n : s[k] \in Blanks
            /\ (n = Len(s) \/ s[n + 1] \notin Blanks)

RECURSIVE strip_before_newline(_)
\* re.sub(r"[ \t]+\n", "\n", s): blanks that run up to a newline are removed
strip_before_newline(s) ==
    IF s = <<>> THEN <<>>
    ELSE LET run == BlankRun(s)
         IN IF run > 0 /\ run < Len(s) /\ s[run + 1] = "\n"
            THEN strip_before_newline(SubSeq(s, run + 1, Len(s)))
            ELSE <<Head(s)>> \o strip_before_newline(Tail(s))

RECURSIVE collapse_blanks(_)
\* re.sub(r"[ \t]{2,}", " ", s): a run of two or more blanks becomes a space
collapse_blanks(s) ==
    IF s = <<>> THEN <<>>
    ELSE LET run == BlankRun(s)
         IN IF run >= 2
            THEN <<" ">> \o collapse_blanks(SubSeq(s, run + 1, Len(s)))
            ELSE <<Head(s)>> \o collapse_blanks(Tail(s))

Whitespace == {" ", "\t", "\n"}

RECURSIVE lstrip(_)
lstrip(s) == IF s # <<>> /\ Head(s) \in Whitespace THEN lstrip(Tail(s)) ELSE s

RECURSIVE rstrip_ws(_)
rstrip_ws(s) ==
    IF s # <<>> /\ s[Len(s)] \in Whitespace
    THEN rstrip_ws(SubSeq(s, 1, Len(s) - 1)) ELSE s

\* str.strip()
strip(s) == rstrip_ws(lstrip(s))

\* sanitize_text on a str; fix_text and NFC leave these characters alone
sanitize_text(s) ==
    strip(collapse_blanks(strip_before_newline(drop_controls(unescape(s)))))

SanInit ==
    /\ sanIn \in SanInputs
    /\ sanPc = "call"
    /\ sanOut = <<>>

\* df_x[c] = df_x[c].map(sanitize_text), for one cell
Sanitize ==
    /\ sanPc = "call"
    /\ sanOut' = sanitize_text(sanIn)
    /\ sanPc' = "returned"
    /\ UNCHANGED <<sanIn, listVars, keepVars, dispatchVars, mergeVars, stratVars,
                   balVars, fpVars, canonVars, collectVars, verdictVars, feedVars,
                   fetchVars, batchVars>>

NextSan == Sanitize

\* C24: no field written to the Excel-safe CSV holds a newline or a tab:
\* sanitize_text replaces every newline and tab of its input by a space.
C24_NoNewlineOrTab ==
    sanPc = "returned" =>
        \A k \in 1..Len(sanOut) : sanOut[k] \notin {"\n", "\t"}

---------------------------------------------------------------------------
(* The hand-over of the candidate jobs to the article extractor:           *)
(* scrape_news.run lines 455-473, one step for the global dedup and one    *)
(* for each batch (the interleaving inside a batch is the batch part).     *)

\* candidate jobs of a run
MaxCandidates == 5

CandidateUrls == {"https://sitio/a", "https://sitio/b", "https://sitio/c",
                  "https://sitio/d"}

\* (u, {"source": name}, label, use_req): a trusted source hints the label
\* "verdadero", a fact-check source hints none; /a and /b are listed by both
\* kinds of source, /c and /d by the fact-check source only
CandidateJobs ==
    {[url |-> u, source |-> "verificador", label |-> "None"] : u \in CandidateUrls}
        \cup {[url |-> u, source |-> "confiable", label |-> "verdadero"] :
                 u \in {"https://sitio/a", "https://sitio/b"}}

\* the global dedup left out
uq_all(jobs) == jobs

\* lines 455-458: seen, uq: the first job of each raw URL
uq_first(jobs) == drop_duplicates(jobs, {"url"})

DispatchInit ==
    /\ dJobs \in SeqsUpTo(CandidateJobs, MaxCandidates)
    /\ dPc = "dedup"
    /\ dUq = <<>>
    /\ dNext = 0
    /\ dCalls = <<>>
    /\ dResults = <<>>

\* lines 455-458
GlobalDedup ==
    /\ dPc = "dedup"
    /\ dUq' = uq_first(dJobs)
    /\ dPc' = IF uq_first(dJobs) = <<>> THEN "done" ELSE "batch"
    /\ UNCHANGED <<dJobs, dNext, dCalls, dResults, listVars, keepVars, sanVars,
                   mergeVars, stratVars, balVars, fpVars, canonVars, collectVars,
                   verdictVars, feedVars, fetchVars, batchVars>>

\* lines 470-473: chunk = uq[i:i+BATCH]; every job of the chunk is handed to
\* scrape_article, which returns one record whether its fetch worked or not
\* (the batch part); the record carries the job's source and label hint
RunChunk ==
    /\ dPc = "batch"
    /\ LET chunk == SubSeq(dUq, dNext + 1, Min(dNext + BATCH, Len(dUq)))
       IN /\ dCalls' = dCalls \o chunk
          /\ dResults' = dResults \o
                [n \in 1..Len(chunk) |->
                    [url |-> chunk[n].url, fuente |-> chunk[n].source,
                     hint |-> chunk[n].label]]
    /\ dNext' = dNext + BATCH
    /\ dPc' = IF dNext + BATCH >= Len(dUq) THEN "done" ELSE "batch"
    /\ UNCHANGED <<dJobs, dUq, listVars, keepVars, sanVars, mergeVars, stratVars,
                   balVars, fpVars, canonVars, collectVars, verdictVars, feedVars,
                   fetchVars, batchVars>>

NextDispatch == GlobalDedup \/ RunChunk

\* the distinct raw URLs among the candidate jobs
DistinctCandidates == {dJobs[n].url : n \in 1..Len(dJobs)}

\* the calls of scrape_article for raw URL u
CallsFor(u) == {k \in 1..Len(dCalls) : dCalls[k].url = u}

\* the first job discovered for raw URL u
FirstJob(u) ==
    dJobs[CHOOSE n \in 1..Len(dJobs) :
            dJobs[n].url = u /\ \A m \in 1..n - 1 : dJobs[m].url # u]

\* C25: every distinct candidate raw URL is handed to the extractor exactly
\* once, as its first discovered job (source and label hint), none is dropped
\* between batches, and the finished run has one result record per distinct URL.
C25_ExactlyOnce ==
    /\ \A u \in DistinctCandidates : Cardinality(CallsFor(u)) <= 1
    /\ dPc = "done" =>
          /\ \A u \in DistinctCandidates :
                /\ Cardinality(CallsFor(u)) = 1
                /\ \A k \in CallsFor(u) : dCalls[k] = FirstJob(u)
          /\ Len(dResults) = Cardinality(DistinctCandidates)
          /\ \A k \in 1..Len(dResults) :
                /\ dResults[k].fuente = FirstJob(dResults[k].url).source
                /\ dResults[k].hint = FirstJob(dResults[k].url).label

\* a finished run of more than one batch in which a URL was discovered by
\* two sources
C25_Witness ==
    /\ dPc = "done"
    /\ Cardinality(DistinctCandidates) > BATCH
    /\ \E m, n \in 1..Len(dJobs) :
          m < n /\ dJobs[m].url = dJobs[n].url /\ dJobs[m].source # dJobs[n].source

---------------------------------------------------------------------------
(* Two runs of pipeline.save_outputs on one master path (lines 169-173):   *)
(* each reads the whole file, merges in memory and rewrites the file, with *)
(* no lock between the read and the write.                                 *)

\* rows of a snapshot
MaxSnapshot == 2

Writers == {"A", "B"}

\* rows of the master schema: one URL stored with two fingerprints, and
\* another URL
MergeRows ==
    {[content_hash |-> "h1", url_canonical |-> "u1"],
     [content_hash |-> "h2", url_canonical |-> "u1"],
     [content_hash |-> "h3", url_canonical |-> "u2"]}

\* what _run_block returns: no two rows of one canonical URL
Snapshots ==
    {df \in SeqsUpTo(MergeRows, MaxSnapshot) :
        \A i, j \in 1..Len(df) : i # j => df[i].url_canonical # df[j].url_canonical}

\* the master file before the two runs: missing, or written by an earlier run
MasterFiles ==
    {[exists |-> FALSE, rows |-> <<>>]}
        \cup {[exists |-> TRUE, rows |-> df] : df \in {s \in Snapshots : Len(s) <= 1}}

MergeInit ==
    /\ mFile \in MasterFiles
    /\ mPc = [w \in Writers |-> "read"]
    /\ mRead \in [Writers -> [df : Snapshots, seen : {[exists |-> FALSE, rows |-> <<>>]}]]
    /\ mOrder = <<>>

\* NW_MASTER.exists() and pd.read_csv(NW_MASTER) of run w
MergeRead(w) ==
    /\ mPc[w] = "read"
    /\ mRead' = [mRead EXCEPT ![w].seen = mFile]
    /\ mPc' = [mPc EXCEPT ![w] = "write"]
    /\ mOrder' = Append(mOrder, [run |-> w, op |-> "read"])
    /\ UNCHANGED <<mFile, listVars, keepVars, sanVars, dispatchVars, stratVars,
                   balVars, fpVars, canonVars, collectVars, verdictVars, feedVars,
                   fetchVars, batchVars>>

\* concat, drop_duplicates and to_csv(NW_MASTER) of run w, on what it read
MergeWrite(w) ==
    /\ mPc[w] = "write"
    /\ mFile' = merge_master(mRead[w].seen, mRead[w].df)
    /\ mPc' = [mPc EXCEPT ![w] = "done"]
    /\ mOrder' = Append(mOrder, [run |-> w, op |-> "write"])
    /\ UNCHANGED <<mRead, listVars, keepVars, sanVars, dispatchVars, stratVars,
                   balVars, fpVars, canonVars, collectVars, verdictVars, feedVars,
                   fetchVars, batchVars>>

NextMerge == \E w \in Writers : MergeRead(w) \/ MergeWrite(w)

\* the (content_hash, url_canonical) pairs of a frame
PairsOf(df) == {<<df[n].content_hash, df[n].url_canonical>> : n \in 1..Len(df)}

\* no run has written the file since run w read it
Undisturbed(w) ==
    \E k \in 1..Len(mOrder) :
        /\ mOrder[k] = [run |-> w, op |-> "read"]
        /\ \A m \in k + 1..Len(mOrder) : mOrder[m].op # "write"

\* both runs read the file before either wrote it
Interleaved ==
    Len(mOrder) >= 2 /\ mOrder[1].op = "read" /\ mOrder[2].op = "read"

\* both runs are over and the master lacks a row one of them contributed
LostUpdate ==
    /\ \A w \in Writers : mPc[w] = "done"
    /\ \E w \in Writers : ~(PairsOf(mRead[w].df) \subseteq PairsOf(mFile.rows))

\* C27: the master merge reads the whole file, merges and rewrites it without
\* a lock: a merge that runs undisturbed (serialized runs) leaves a master
\* with every row it held before and a row for every (content_hash,
\* url_canonical) pair of the new snapshot, and rows of a run are missing
\* from the final master only when the two merges interleaved (both read
\* before either wrote), in which case such a state is reachable.
C27_NonAtomicMerge ==
    /\ [][\A w \in Writers :
            (MergeWrite(w) /\ Undisturbed(w)) =>
                /\ Range(mFile.rows) \subseteq Range(mFile'.rows)
                /\ PairsOf(mRead[w].df) \subseteq PairsOf(mFile'.rows)]_vars
    /\ [](LostUpdate => Interleaved)

\* the two merges interleaved and the final master lacks rows of one run
C27_Witness == LostUpdate /\ Interleaved

---------------------------------------------------------------------------
(* stratified_balance of src/balance.py.  A row is named by its position   *)
(* in the input frame and a frame is the bag of its rows: how often each   *)
(* row occurs in it (the order of the rows, which the final shuffle        *)
(* changes, is left out).                                                  *)

\* rows of the input frame
MaxStratRows == 4

\* the labels of the rows: the three valid ones and one that is not
RowLabels == {"true", "false", "doubtful", "unknown"}

ValidLabels == {"true", "false", "doubtful"}

\* config.TARGET_RATIOS = {"true": 0.40, "false": 0.40, "doubtful": 0.20},
\* in fifths
TARGET_RATIOS == [lab \in ValidLabels |-> IF lab = "doubtful" THEN 1 ELSE 2]

\* int(math.floor(n * r))
target(n, lab) == (n * TARGET_RATIOS[lab]) \div 5

\* df[df["label"].isin(["true", "false", "doubtful"])]
valid_rows(labels) == {k \in 1..Len(labels) : labels[k] \in ValidLabels}

\* df[df["label"] == lab]
pool_of(labels, lab) == {k \in 1..Len(labels) : labels[k] = lab}

\* DataFrame.sample(n=t): any t rows of the frame
sample(frame, t) == {s \in SUBSET frame : Cardinality(s) = t}

\* line 13: pool if len(pool) <= t else pool.sample(n=t)
slice_of(pool, t) == IF Cardinality(pool) <= t THEN {pool} ELSE sample(pool, t)

\* the deficit is never refilled
refill_none(remain, deficit) == {{}}

\* line 19: remain.sample(n=min(deficit, len(remain))), or an empty frame
refill(remain, deficit) ==
    IF remain = {} THEN {{}} ELSE sample(remain, Min(deficit, Cardinality(remain)))

StratInit ==
    /\ stIn \in SeqsUpTo(RowLabels, MaxStratRows)
    /\ stPc = "slice"
    /\ st = <<>>
    /\ stOut = <<>>

\* lines 6-15: the filter, the targets, the slices, allocated and deficit
StratSlice ==
    /\ stPc = "slice"
    /\ LET df == valid_rows(stIn)
           n == Cardinality(df)
       IN IF df = {}
          THEN /\ stOut' = [k \in 1..Len(stIn) |-> 0]
               /\ st' = st
               /\ stPc' = "done"
          ELSE /\ \E slices \in [ValidLabels -> SUBSET df] :
                    /\ \A lab \in ValidLabels :
                          slices[lab] \in slice_of(pool_of(stIn, lab), target(n, lab))
                    /\ LET allocated ==
                               SumOver([lab \in ValidLabels |-> Cardinality(slices[lab])],
                                       ValidLabels)
                       IN st' = [slices |-> slices, allocated |-> allocated,
                                 deficit |-> n - allocated]
               /\ stOut' = stOut
               /\ stPc' = "refill"
    /\ UNCHANGED <<stIn, listVars, keepVars, sanVars, dispatchVars, mergeVars,
                   balVars, fpVars, canonVars, collectVars, verdictVars, feedVars,
                   fetchVars, batchVars>>

\* lines 16-23: the refill from the rows the slices left out, the concat
StratRefill ==
    /\ stPc = "refill"
    /\ LET df == valid_rows(stIn)
           used_idx == UNION {st.slices[lab] : lab \in ValidLabels}
           remain == df \ used_idx
           count(k, add) ==
               Cardinality({lab \in ValidLabels : k \in st.slices[lab]})
                   + (IF k \in add THEN 1 ELSE 0)
       IN \E add \in (IF st.deficit > 0 THEN refill(remain, st.deficit) ELSE {{}}) :
             stOut' = [k \in 1..Len(stIn) |-> count(k, add)]
    /\ stPc' = "done"
    /\ UNCHANGED <<stIn, st, listVars, keepVars, sanVars, dispatchVars, mergeVars,
                   balVars, fpVars, canonVars, collectVars, verdictVars, feedVars,
                   fetchVars, batchVars>>

NextStrat == StratSlice \/ StratRefill

\* C28: stratified_balance returns every row whose label is true, false or
\* doubtful exactly once and no other row, whatever the class distribution:
\* the deficit left by the floor(n*ratio) caps is refilled from the rows the
\* caps excluded.
C28_PermutationOfValidRows ==
    stPc = "done" =>
        \A k \in 1..Len(stIn) :
            stOut[k] = IF stIn[k] \in ValidLabels THEN 1 ELSE 0

\* a call in which the cap of a class excluded rows, an invalid row was
\* filtered out, and the refill brought the excluded rows back
C28_Witness ==
    /\ stPc = "done" /\ st # <<>>
    /\ st.deficit >= 2
    /\ \E lab \in ValidLabels :
          Cardinality(st.slices[lab]) < Cardinality(pool_of(stIn, lab))
    /\ \E k \in 1..Len(stIn) : stIn[k] = "unknown"

---------------------------------------------------------------------------
(* The specifications.                                                     *)

ListIdleState ==
    /\ lsIn = <<>> /\ lsPc = "idle" /\ lsPage = 0 /\ lsFound = <<>> /\ lsOut = <<>>

KeepIdleState == keepIn = <<>> /\ keepPc = "idle" /\ keepOut = <<>>

SanIdleState == sanIn = <<>> /\ sanPc = "idle" /\ sanOut = <<>>

DispatchIdleState ==
    /\ dJobs = <<>> /\ dPc = "idle" /\ dUq = <<>> /\ dNext = 0
    /\ dCalls = <<>> /\ dResults = <<>>

MergeIdleState == mFile = <<>> /\ mPc = <<>> /\ mRead = <<>> /\ mOrder = <<>>

StratIdleState == stIn = <<>> /\ stPc = "idle" /\ st = <<>> /\ stOut = <<>>

\* the listing, keep-order, sanitizer, dispatch, merge and stratifier parts are idle
TailIdle ==
    /\ ListIdleState /\ KeepIdleState /\ SanIdleState
    /\ DispatchIdleState /\ MergeIdleState /\ StratIdleState

\* the parts added after the collectors are idle
LaterIdle ==
    VerdictIdleState /\ FeedIdleState /\ FetchIdleState /\ BatchIdleState /\ TailIdle

InitBal == BalInit /\ FpIdleState /\ CanonIdleState /\ CollectIdleState /\ LaterIdle

SpecBal == InitBal /\ [][NextBal]_vars

\* lines 509-521 alone, which do not read the pool: every ratio map and
\* target_total, with an empty pool
InitAdjust ==
    /\ InitBal
    /\ \A c \in Labels : balIn.avail[c] = 0

\* the call runs on: a loop iteration that can be taken is taken
SpecAdjust == InitAdjust /\ [][NextAdjust]_vars /\ WF_vars(NextAdjust)

InitFp == FpInit /\ BalIdleState /\ CanonIdleState /\ CollectIdleState /\ LaterIdle

SpecFp == InitFp /\ [][NextFp]_vars

InitCanon == CanonInit /\ BalIdleState /\ FpIdleState /\ CollectIdleState /\ LaterIdle

SpecCanon == InitCanon /\ [][NextCanon]_vars

\* the canonicalizer variables other than the server are idle
CanonUnused ==
    /\ cFn = "idle"
    /\ cUrl = BaseUrl
    /\ cOut = <<>>

InitCollect == CollectInit /\ BalIdleState /\ FpIdleState /\ CanonUnused /\ LaterIdle

SpecCollect == InitCollect /\ [][NextCollect]_vars

SpecMaster == InitCollect /\ [][NextMaster]_vars

\* the parts before the verdict classifier are idle
EarlierIdle == BalIdleState /\ FpIdleState /\ CanonIdleState /\ CollectIdleState

InitVerdict ==
    VerdictInit /\ EarlierIdle /\ FeedIdleState /\ FetchIdleState /\ BatchIdleState
        /\ TailIdle

SpecVerdict == InitVerdict /\ [][NextVerdict]_vars

InitFeed ==
    FeedInit /\ EarlierIdle /\ VerdictIdleState /\ FetchIdleState /\ BatchIdleState
        /\ TailIdle

SpecFeed == InitFeed /\ [][NextFeed]_vars

InitFetch ==
    FetchInit /\ EarlierIdle /\ VerdictIdleState /\ FeedIdleState /\ BatchIdleState
        /\ TailIdle

SpecFetch == InitFetch /\ [][NextFetch]_vars

InitBatch ==
    BatchInit /\ EarlierIdle /\ VerdictIdleState /\ FeedIdleState /\ FetchIdleState
        /\ TailIdle

SpecBatch == InitBatch /\ [][NextBatch]_vars

\* the parts of the first two rounds are idle
SettledIdle ==
    /\ EarlierIdle /\ VerdictIdleState /\ FeedIdleState /\ FetchIdleState
    /\ BatchIdleState

InitListing ==
    /\ ListInit /\ SettledIdle /\ KeepIdleState /\ SanIdleState
    /\ DispatchIdleState /\ MergeIdleState /\ StratIdleState

SpecListing == InitListing /\ [][NextListing]_vars

InitKeep ==
    /\ KeepInit /\ SettledIdle /\ ListIdleState /\ SanIdleState
    /\ DispatchIdleState /\ MergeIdleState /\ StratIdleState

SpecKeep == InitKeep /\ [][NextKeep]_vars

InitSan ==
    /\ SanInit /\ SettledIdle /\ ListIdleState /\ KeepIdleState
    /\ DispatchIdleState /\ MergeIdleState /\ StratIdleState

SpecSan == InitSan /\ [][NextSan]_vars

InitDispatch ==
    /\ DispatchInit /\ SettledIdle /\ ListIdleState /\ KeepIdleState
    /\ SanIdleState /\ MergeIdleState /\ StratIdleState

SpecDispatch == InitDispatch /\ [][NextDispatch]_vars

InitMerge ==
    /\ MergeInit /\ SettledIdle /\ ListIdleState /\ KeepIdleState
    /\ SanIdleState /\ DispatchIdleState /\ StratIdleState

SpecMerge == InitMerge /\ [][NextMerge]_vars

InitStrat ==
    /\ StratInit /\ SettledIdle /\ ListIdleState /\ KeepIdleState
    /\ SanIdleState /\ DispatchIdleState /\ MergeIdleState

SpecStrat == InitStrat /\ [][NextStrat]_vars

=============================================================================
